---- MODULE Spec2Model ----
(***************************************************************************)
(* Match-coordination layer of the chat service                            *)
(* (services/chat-service/src/routes/messages.ts, the /ws plugin):         *)
(* the connection table `clients`, the invite table `activeInvites`, the   *)
(* session table `activeGames`, the expiry timers set by setTimeout, the   *)
(* handlers suspended at their prisma await, and the persisted game rows.  *)
(***************************************************************************)
EXTENDS Integers, Sequences, FiniteSets, Bags, TLC

\* ---------------------------------------------------------------- bounds
MaxUsers == 3      \* user ids carried by tokens
MaxSockets == 3    \* connections opened in one run
MaxInvites == 2    \* invites stored in one run
MaxPending == 2    \* handlers suspended at an await at the same time
MaxWinners == 2    \* user ids a game_end frame names as winner

\* A run is explored up to one of three sizes: three users on three sockets
\* around one invite, two invites between two users, or two handlers
\* suspended at once between two users.
FewUsers == 2
FewWinners == 1
FewSockets == 2
FewInvites == 1
FewPending == 1

Users == 1 .. MaxUsers
Sockets == 1 .. MaxSockets

NoUser == 0        \* null winnerId of a fresh game row

\* the identity token of the query string: absent, unverifiable, or signed
NoToken == [present |-> FALSE, valid |-> FALSE, id |-> NoUser]
BadToken == [present |-> TRUE, valid |-> FALSE, id |-> NoUser]
GoodToken(u) == [present |-> TRUE, valid |-> TRUE, id |-> u]
Tokens == {NoToken, BadToken} \cup {GoodToken(u) : u \in Users}

\* payload values of the frames
PaddleYs == {40}
GameStates == {1}
ScoreLines == {[left |-> 11, right |-> 7]}

VARIABLES
    clients,        \* Map<number, Set<WebSocket>>: user id -> live sockets
    conn,           \* socket -> the userId of its closure, for every open connection
    nextSock,       \* the handle the next connection gets
    activeInvites,  \* Map<string, invite>
    timers,         \* invite ids whose setTimeout callback has not run yet
    activeGames,    \* Map<string, game>
    nextId,         \* the value the next generateId() returns
    dbGames,        \* rows of prisma.game, row id = index
    creating,       \* handleInviteAccept calls suspended at prisma.game.create
    updating,       \* handleGameEnd calls suspended at prisma.game.update (a bag)
    wire,           \* socket -> envelopes written to it by the last step, in order
    calls,          \* sendToUser calls of the last step, in order
    last,           \* the event the last step handled
    limits,         \* the size up to which this run is explored
    ledger,         \* history: per invite id, who invited whom and what happened to it
    pre             \* history: the tables and suspended calls the last step started from

vars == <<clients, conn, nextSock, activeInvites, timers, activeGames, nextId,
          dbGames, creating, updating, wire, calls, last, limits, ledger, pre>>

tables == <<clients, activeInvites, activeGames>>

\* tables in the state the last step started from
tablesBefore == <<pre.clients, pre.activeInvites, pre.activeGames>>

\* ------------------------------------------------------------- Map helpers
MapDelete(m, k) == [x \in DOMAIN m \ {k} |-> m[x]]
MapSet(m, k, v) == [x \in DOMAIN m \cup {k} |-> IF x = k THEN v ELSE m[x]]
EmptyMap == <<>>

Quiet == [s \in Sockets |-> <<>>]

\* a write that goes to every socket of the user that owns s
SocketSendToOwner(w, s, message) ==
    [x \in Sockets |-> IF \E u \in DOMAIN clients : {s, x} \subseteq clients[u]
                        THEN Append(w[x], message)
                        ELSE w[x]]

\* client.send / socket.send: one write on one socket
SocketSend(w, s, message) == [w EXCEPT ![s] = Append(@, message)]

\* a send that writes to every registered socket, whoever owns it
sendToEveryone(w, userId, message) ==
    [s \in Sockets |-> IF \E u \in DOMAIN clients : s \in clients[u]
                        THEN Append(w[s], message)
                        ELSE w[s]]

\* sendToUser(userId, message): one write on every socket of the user's set,
\* nothing when the user has no entry
sendToUser(w, userId, message) ==
    IF userId \in DOMAIN clients
    THEN [s \in Sockets |-> IF s \in clients[userId] THEN Append(w[s], message) ELSE w[s]]
    ELSE w

\* the writes of a sequence of sendToUser calls, made in order
RECURSIVE Written(_)
Written(cs) ==
    IF cs = <<>> THEN Quiet
    ELSE LET n == Len(cs)
         IN sendToUser(Written(SubSeq(cs, 1, n - 1)), cs[n].to, cs[n].msg)

Call(userId, message) == [to |-> userId, msg |-> message]

\* a handler's output: the sendToUser calls it makes, in order
Sends(cs) == calls' = cs /\ wire' = Written(cs)

\* ------------------------------------------------------------------- Init
Wide == [users |-> MaxUsers, winners |-> MaxWinners, sockets |-> MaxSockets,
         invites |-> FewInvites, pending |-> FewPending]
Paired == [users |-> FewUsers, winners |-> FewWinners, sockets |-> FewSockets,
           invites |-> MaxInvites, pending |-> FewPending]
Twin == [users |-> FewUsers, winners |-> MaxWinners, sockets |-> FewSockets,
         invites |-> FewInvites, pending |-> MaxPending]

\* what a step leaves behind of the state it started from
Now ==
    [clients |-> clients, conn |-> conn, activeInvites |-> activeInvites,
     timers |-> timers, activeGames |-> activeGames, nextId |-> nextId,
     dbGames |-> dbGames, creating |-> creating, updating |-> updating,
     ledger |-> ledger]

Remember == pre' = Now

\* the tables as the module creates them
Fresh ==
    /\ clients = EmptyMap
    /\ conn = EmptyMap
    /\ nextSock = 1
    /\ activeInvites = EmptyMap
    /\ timers = {}
    /\ activeGames = EmptyMap
    /\ nextId = 1
    /\ dbGames = <<>>
    /\ creating = EmptyBag
    /\ updating = EmptyBag
    /\ wire = Quiet
    /\ calls = <<>>
    /\ last = [kind |-> "init"]
    /\ ledger = EmptyMap
    /\ pre = Now

Init == Fresh /\ limits = Wide

\* ------------------------------------------------------------ connections
\* clients.set(userId, new Set()) when absent; clients.get(userId).add(socket)
Register(userId, s) ==
    IF userId \in DOMAIN clients
    THEN [clients EXCEPT ![userId] = @ \cup {s}]
    ELSE MapSet(clients, userId, {s})

\* a close handler that drops the user's entry whatever the set still holds
UnregisterWholeUser(userId, s) ==
    IF userId \in DOMAIN clients THEN MapDelete(clients, userId) ELSE clients

\* the close handler: delete the socket, and the entry when the set is empty
Unregister(userId, s) ==
    IF userId \in DOMAIN clients
    THEN IF clients[userId] \ {s} = {}
         THEN MapDelete(clients, userId)
         ELSE [clients EXCEPT ![userId] = @ \ {s}]
    ELSE clients

\* a handshake that skips fastify.jwt.verify
CloseCodeUnverified(token) ==
    IF ~token.present THEN 4001 ELSE 0

\* the close code of the handshake, 0 when the token verifies
CloseCode(token) ==
    IF ~token.present THEN 4001
    ELSE IF ~token.valid THEN 4002
    ELSE 0

\* user ids some connection, invite or session of the run has carried
KnownUsers ==
    {conn[s].userId : s \in DOMAIN conn}
    \cup {ledger[i].fromUserId : i \in DOMAIN ledger}
    \cup {ledger[i].toUserId : i \in DOMAIN ledger}

\* The code only ever compares user ids, so which number a newcomer carries
\* does not matter: a newcomer takes the smallest id not in use.
InOrder(token) ==
    token.valid => /\ token.id <= limits.users
                   /\ \A v \in 1 .. token.id - 1 : v \in KnownUsers

\* GET /ws: verify the token, then register the socket and attach the handlers.
\* A socket closed by the handshake is never registered and gets no handle.
Connect(token) ==
    /\ nextSock <= limits.sockets
    /\ InOrder(token)
    /\ IF CloseCode(token) # 0
       THEN UNCHANGED <<clients, conn, nextSock>>
       ELSE /\ clients' = Register(token.id, nextSock)
            /\ conn' = MapSet(conn, nextSock, [userId |-> token.id])
            /\ nextSock' = nextSock + 1
    /\ last' = [kind |-> "connect", sock |-> nextSock, token |-> token,
                code |-> CloseCode(token)]
    /\ wire' = Quiet /\ calls' = <<>>
    /\ UNCHANGED <<limits, activeInvites, timers, activeGames, nextId, dbGames,
                   creating, updating, ledger>>

IsOpen(s) == s \in DOMAIN conn

\* a close handler that also drops the sessions of a user left without sockets
CloseForfeits(s) ==
    /\ IsOpen(s)
    /\ clients' = Unregister(conn[s].userId, s)
    /\ conn' = MapDelete(conn, s)
    /\ activeGames' = [g \in {x \in DOMAIN activeGames :
                                 conn[s].userId \in DOMAIN clients'
                                 \/ conn[s].userId \notin {activeGames[x].hostId,
                                                           activeGames[x].guestId}}
                         |-> activeGames[g]]
    /\ last' = [kind |-> "close", sock |-> s, user |-> conn[s].userId]
    /\ wire' = Quiet /\ calls' = <<>>
    /\ UNCHANGED <<limits, nextSock, activeInvites, timers, nextId, dbGames,
                   creating, updating, ledger>>

\* a close handler that withdraws the invites of a user whose last socket
\* has closed
CloseCancelsInvites(s) ==
    /\ IsOpen(s)
    /\ clients' = Unregister(conn[s].userId, s)
    /\ conn' = MapDelete(conn, s)
    /\ last' = [kind |-> "close", sock |-> s, user |-> conn[s].userId]
    /\ wire' = Quiet /\ calls' = <<>>
    /\ activeInvites' =
          IF conn[s].userId \in DOMAIN clients'
          THEN activeInvites
          ELSE [i \in {x \in DOMAIN activeInvites :
                          /\ activeInvites[x].fromUserId # conn[s].userId
                          /\ activeInvites[x].toUserId # conn[s].userId}
                   |-> activeInvites[i]]
    /\ UNCHANGED <<limits, nextSock, timers, activeGames, nextId, dbGames,
                   creating, updating, ledger>>

\* socket.on('close')
Close(s) ==
    /\ IsOpen(s)
    /\ clients' = Unregister(conn[s].userId, s)
    /\ conn' = MapDelete(conn, s)
    /\ last' = [kind |-> "close", sock |-> s, user |-> conn[s].userId]
    /\ wire' = Quiet /\ calls' = <<>>
    /\ UNCHANGED <<limits, nextSock, activeInvites, timers, activeGames, nextId, dbGames,
                   creating, updating, ledger>>

\* --------------------------------------------------------------- history
\* ledger[i].events: what happened to invite i, in order: "accept", "decline",
\* "expire" when a handler removed it, "session" when a session was inserted
\* for it, and the type of every envelope that handler addressed to its inviter
Log(inviteId, evs) ==
    IF inviteId \in DOMAIN ledger
    THEN [ledger EXCEPT ![inviteId].events = @ \o evs]
    ELSE ledger

Count(seq, x) == Cardinality({k \in 1 .. Len(seq) : seq[k] = x})

\* the types of the envelopes that the calls cs address to userId, in order
Notices(cs, userId) ==
    LET mine == SelectSeq(cs, LAMBDA c : c.to = userId)
    IN [k \in 1 .. Len(mine) |-> mine[k].msg.type]

\* handlers suspended at an await
Pending == BagCardinality(creating) + BagCardinality(updating)

\* invites stored so far
Invited == Cardinality(DOMAIN ledger)

\* ---------------------------------------------------------------- invites
\* a handler without the clients.has(toUserId) test
handleGameInviteUnchecked(fromUserId, toUserId) ==
    LET inviteId == nextId
        invite == [id |-> inviteId, fromUserId |-> fromUserId, toUserId |-> toUserId]
    IN /\ nextId' = nextId + 1
       /\ activeInvites' = MapSet(activeInvites, inviteId, invite)
       /\ Sends(<<Call(toUserId, [type |-> "game_invite",
                                  invite |-> [id |-> inviteId,
                                              from_user_id |-> fromUserId]]),
                  Call(fromUserId, [type |-> "game_invite_sent",
                                    invite_id |-> inviteId,
                                    to_user_id |-> toUserId])>>)
       /\ timers' = timers \cup {[inviteId |-> inviteId, fromUserId |-> fromUserId]}
       /\ ledger' = MapSet(ledger, inviteId,
                           [fromUserId |-> fromUserId, toUserId |-> toUserId,
                            events |-> <<>>])

\* a handler that forgets its setTimeout
handleGameInviteNoTimer(fromUserId, toUserId) ==
    IF toUserId \notin DOMAIN clients
    THEN /\ Sends(<<Call(fromUserId, [type |-> "game_invite_error",
                                      error |-> "User is not online"])>>)
         /\ UNCHANGED <<activeInvites, timers, nextId, ledger>>
    ELSE LET inviteId == nextId
             invite == [id |-> inviteId, fromUserId |-> fromUserId, toUserId |-> toUserId]
         IN /\ nextId' = nextId + 1
            /\ activeInvites' = MapSet(activeInvites, inviteId, invite)
            /\ Sends(<<Call(toUserId, [type |-> "game_invite",
                                       invite |-> [id |-> inviteId,
                                                   from_user_id |-> fromUserId]]),
                       Call(fromUserId, [type |-> "game_invite_sent",
                                         invite_id |-> inviteId,
                                         to_user_id |-> toUserId])>>)
            /\ UNCHANGED timers
            /\ ledger' = MapSet(ledger, inviteId,
                                [fromUserId |-> fromUserId, toUserId |-> toUserId,
                                 events |-> <<>>])

\* a handler that keeps one pending invite per pair: a new invite replaces
\* the pending ones of the same inviter to the same invitee
handleGameInviteOnePerPair(fromUserId, toUserId) ==
    IF toUserId \notin DOMAIN clients
    THEN /\ Sends(<<Call(fromUserId, [type |-> "game_invite_error",
                                      error |-> "User is not online"])>>)
         /\ UNCHANGED <<activeInvites, timers, nextId, ledger>>
    ELSE LET inviteId == nextId
             invite == [id |-> inviteId, fromUserId |-> fromUserId, toUserId |-> toUserId]
             others == {x \in DOMAIN activeInvites :
                           \/ activeInvites[x].fromUserId # fromUserId
                           \/ activeInvites[x].toUserId # toUserId}
         IN /\ nextId' = nextId + 1
            /\ activeInvites' = MapSet([x \in others |-> activeInvites[x]], inviteId, invite)
            /\ Sends(<<Call(toUserId, [type |-> "game_invite",
                                       invite |-> [id |-> inviteId,
                                                   from_user_id |-> fromUserId]]),
                       Call(fromUserId, [type |-> "game_invite_sent",
                                         invite_id |-> inviteId,
                                         to_user_id |-> toUserId])>>)
            /\ timers' = timers \cup {[inviteId |-> inviteId, fromUserId |-> fromUserId]}
            /\ ledger' = MapSet(ledger, inviteId,
                                [fromUserId |-> fromUserId, toUserId |-> toUserId,
                                 events |-> <<>>])

\* handleGameInvite(fromUserId, fromUsername, toUserId)
handleGameInvite(fromUserId, toUserId) ==
    IF toUserId \notin DOMAIN clients
    THEN /\ Sends(<<Call(fromUserId, [type |-> "game_invite_error",
                                      error |-> "User is not online"])>>)
         /\ UNCHANGED <<activeInvites, timers, nextId, ledger>>
    ELSE LET inviteId == nextId
             invite == [id |-> inviteId, fromUserId |-> fromUserId, toUserId |-> toUserId]
         IN /\ nextId' = nextId + 1
            /\ activeInvites' = MapSet(activeInvites, inviteId, invite)
            /\ Sends(<<Call(toUserId, [type |-> "game_invite",
                                       invite |-> [id |-> inviteId,
                                                   from_user_id |-> fromUserId]]),
                       Call(fromUserId, [type |-> "game_invite_sent",
                                         invite_id |-> inviteId,
                                         to_user_id |-> toUserId])>>)
            /\ timers' = timers \cup {[inviteId |-> inviteId, fromUserId |-> fromUserId]}
            /\ ledger' = MapSet(ledger, inviteId,
                                [fromUserId |-> fromUserId, toUserId |-> toUserId,
                                 events |-> <<>>])

\* the envelope of the setTimeout callback
ExpiredCall(tm) ==
    Call(tm.fromUserId, [type |-> "game_invite_expired", invite_id |-> tm.inviteId])

\* what every setTimeout callback leaves alone, and its record in `last`
TimerFrame(tm) ==
    /\ tm \in timers
    /\ timers' = timers \ {tm}
    /\ last' = [kind |-> "timer", invite_id |-> tm.inviteId]
    /\ UNCHANGED <<limits, clients, conn, nextSock, activeGames, nextId, dbGames,
                   creating, updating>>

\* a callback without the activeInvites.has(inviteId) test
TimerFireUnchecked(tm) ==
    /\ TimerFrame(tm)
    /\ activeInvites' = MapDelete(activeInvites, tm.inviteId)
    /\ Sends(<<ExpiredCall(tm)>>)
    /\ ledger' = Log(tm.inviteId, <<"expire">> \o Notices(<<ExpiredCall(tm)>>, tm.fromUserId))

\* a callback that notifies but forgets activeInvites.delete(inviteId)
TimerFireKeepsInvite(tm) ==
    /\ TimerFrame(tm)
    /\ UNCHANGED activeInvites
    /\ IF tm.inviteId \in DOMAIN activeInvites
       THEN /\ Sends(<<ExpiredCall(tm)>>)
            /\ ledger' = Log(tm.inviteId,
                             <<"expire">> \o Notices(<<ExpiredCall(tm)>>, tm.fromUserId))
       ELSE /\ Sends(<<>>)
            /\ UNCHANGED ledger

\* a callback whose test is inverted: it acts only when the invite is gone
TimerFireInverted(tm) ==
    /\ TimerFrame(tm)
    /\ IF tm.inviteId \notin DOMAIN activeInvites
       THEN /\ activeInvites' = MapDelete(activeInvites, tm.inviteId)
            /\ Sends(<<ExpiredCall(tm)>>)
            /\ ledger' = Log(tm.inviteId,
                             <<"expire">> \o Notices(<<ExpiredCall(tm)>>, tm.fromUserId))
       ELSE /\ Sends(<<>>)
            /\ UNCHANGED <<activeInvites, ledger>>

\* a callback that tells the invitee as well
TimerFireTellsBoth(tm) ==
    /\ TimerFrame(tm)
    /\ IF tm.inviteId \in DOMAIN activeInvites
       THEN /\ activeInvites' = MapDelete(activeInvites, tm.inviteId)
            /\ Sends(<<ExpiredCall(tm),
                       Call(activeInvites[tm.inviteId].toUserId,
                            [type |-> "game_invite_expired", invite_id |-> tm.inviteId])>>)
            /\ ledger' = Log(tm.inviteId,
                             <<"expire">> \o Notices(<<ExpiredCall(tm)>>, tm.fromUserId))
       ELSE /\ Sends(<<>>)
            /\ UNCHANGED <<activeInvites, ledger>>

\* the setTimeout callback of handleGameInvite
TimerFire(tm) ==
    /\ TimerFrame(tm)
    /\ IF tm.inviteId \in DOMAIN activeInvites
       THEN /\ activeInvites' = MapDelete(activeInvites, tm.inviteId)
            /\ Sends(<<ExpiredCall(tm)>>)
            /\ ledger' = Log(tm.inviteId,
                             <<"expire">> \o Notices(<<ExpiredCall(tm)>>, tm.fromUserId))
       ELSE /\ Sends(<<>>)
            /\ UNCHANGED <<activeInvites, ledger>>

\* the reply of handleInviteAccept to an accept it refuses
NotFoundCall(acceptingUserId) ==
    Call(acceptingUserId, [type |-> "game_invite_error",
                           error |-> "Invite not found or expired"])

\* the handler's continuation: the closure it resumes with
AcceptTask(acceptingUserId, inviteId) ==
    [invite |-> activeInvites[inviteId], acceptingUserId |-> acceptingUserId]

\* a handler that leaves the invite in the table across the await
handleInviteAcceptKeepsInvite(acceptingUserId, inviteId) ==
    IF \/ inviteId \notin DOMAIN activeInvites
       \/ activeInvites[inviteId].toUserId # acceptingUserId
    THEN /\ Sends(<<NotFoundCall(acceptingUserId)>>)
         /\ UNCHANGED <<activeInvites, creating, ledger>>
    ELSE /\ UNCHANGED activeInvites
         /\ creating' = creating (+) SetToBag({AcceptTask(acceptingUserId, inviteId)})
         /\ Sends(<<>>)
         /\ ledger' = Log(inviteId, <<"accept">>)

\* a handler that tells a stranger that the invite exists
handleInviteAcceptTelling(acceptingUserId, inviteId) ==
    IF inviteId \notin DOMAIN activeInvites
    THEN /\ Sends(<<NotFoundCall(acceptingUserId)>>)
         /\ UNCHANGED <<activeInvites, creating, ledger>>
    ELSE IF activeInvites[inviteId].toUserId # acceptingUserId
    THEN /\ Sends(<<Call(acceptingUserId, [type |-> "game_invite_error",
                                           error |-> "Not your invite"])>>)
         /\ UNCHANGED <<activeInvites, creating, ledger>>
    ELSE /\ activeInvites' = MapDelete(activeInvites, inviteId)
         /\ creating' = creating (+) SetToBag({AcceptTask(acceptingUserId, inviteId)})
         /\ Sends(<<>>)
         /\ ledger' = Log(inviteId, <<"accept">>)

\* a handler without the invite.toUserId !== acceptingUserId test
handleInviteAcceptAnyone(acceptingUserId, inviteId) ==
    IF inviteId \notin DOMAIN activeInvites
    THEN /\ Sends(<<NotFoundCall(acceptingUserId)>>)
         /\ UNCHANGED <<activeInvites, creating, ledger>>
    ELSE /\ activeInvites' = MapDelete(activeInvites, inviteId)
         /\ creating' = creating (+) SetToBag({AcceptTask(acceptingUserId, inviteId)})
         /\ Sends(<<>>)
         /\ ledger' = Log(inviteId, <<"accept">>)

\* handleInviteAccept up to its await of prisma.game.create
handleInviteAccept(acceptingUserId, inviteId) ==
    IF \/ inviteId \notin DOMAIN activeInvites
       \/ activeInvites[inviteId].toUserId # acceptingUserId
    THEN /\ Sends(<<NotFoundCall(acceptingUserId)>>)
         /\ UNCHANGED <<activeInvites, creating, ledger>>
    ELSE /\ activeInvites' = MapDelete(activeInvites, inviteId)
         /\ creating' = creating (+) SetToBag({AcceptTask(acceptingUserId, inviteId)})
         /\ Sends(<<>>)
         /\ ledger' = Log(inviteId, <<"accept">>)

\* the row prisma.game.create inserts
NewGameRow(player1Id, player2Id) ==
    [player1Id |-> player1Id, player2Id |-> player2Id, gameMode |-> "online",
     player1Score |-> 0, player2Score |-> 0, winnerId |-> NoUser]

\* a session whose roles are the wrong way round
NewGameSwapped(gameId, t, dbGameId) ==
    [id |-> gameId, hostId |-> t.acceptingUserId, guestId |-> t.invite.fromUserId,
     dbGameId |-> dbGameId]

\* the session handleInviteAccept stores once the row exists
NewGame(gameId, t, dbGameId) ==
    [id |-> gameId, hostId |-> t.invite.fromUserId, guestId |-> t.acceptingUserId,
     dbGameId |-> dbGameId]

\* the two game_invite_accepted envelopes
AcceptedCalls(t, gameId, dbGameId) ==
    <<Call(t.invite.fromUserId,
           [type |-> "game_invite_accepted", game_id |-> gameId,
            db_game_id |-> dbGameId, opponent_id |-> t.acceptingUserId,
            is_host |-> TRUE]),
      Call(t.acceptingUserId,
           [type |-> "game_invite_accepted", game_id |-> gameId,
            db_game_id |-> dbGameId, opponent_id |-> t.invite.fromUserId,
            is_host |-> FALSE])>>

\* handleInviteAccept from the moment prisma.game.create resolves
CreateResolved(t) ==
    /\ BagIn(t, creating)
    /\ creating' = creating (-) SetToBag({t})
    /\ LET dbGameId == Len(dbGames) + 1
           gameId == nextId
           cs == AcceptedCalls(t, gameId, dbGameId)
       IN /\ dbGames' = Append(dbGames, NewGameRow(t.invite.fromUserId, t.acceptingUserId))
          /\ nextId' = nextId + 1
          /\ activeGames' = MapSet(activeGames, gameId, NewGame(gameId, t, dbGameId))
          /\ Sends(cs)
          /\ last' = [kind |-> "created", task |-> t, game_id |-> gameId]
          /\ ledger' = Log(t.invite.id, <<"session">> \o Notices(cs, t.invite.fromUserId))
    /\ UNCHANGED <<limits, clients, conn, nextSock, activeInvites, timers, updating>>

\* an accept that stores the session before its await and does not roll back
CreateRejectedKeepsSession(t) ==
    /\ BagIn(t, creating)
    /\ creating' = creating (-) SetToBag({t})
    /\ Sends(<<>>)
    /\ activeGames' = MapSet(activeGames, nextId, NewGame(nextId, t, 0))
    /\ nextId' = nextId + 1
    /\ last' = [kind |-> "create_failed", task |-> t]
    /\ UNCHANGED <<limits, clients, conn, nextSock, activeInvites, timers,
                   dbGames, updating, ledger>>

\* an accept that puts the invite back when the create fails
CreateRejectedRestores(t) ==
    /\ BagIn(t, creating)
    /\ creating' = creating (-) SetToBag({t})
    /\ Sends(<<>>)
    /\ activeInvites' = MapSet(activeInvites, t.invite.id, t.invite)
    /\ last' = [kind |-> "create_failed", task |-> t]
    /\ UNCHANGED <<limits, clients, conn, nextSock, timers, activeGames,
                   nextId, dbGames, updating, ledger>>

\* prisma.game.create rejects: the throw reaches the catch of the message handler
CreateRejected(t) ==
    /\ BagIn(t, creating)
    /\ creating' = creating (-) SetToBag({t})
    /\ Sends(<<>>)
    /\ last' = [kind |-> "create_failed", task |-> t]
    /\ UNCHANGED <<limits, clients, conn, nextSock, activeInvites, timers, activeGames,
                   nextId, dbGames, updating, ledger>>

\* a handler without the invite.toUserId !== decliningUserId test
handleInviteDeclineAnyone(decliningUserId, inviteId) ==
    IF inviteId \notin DOMAIN activeInvites
    THEN /\ Sends(<<>>)
         /\ UNCHANGED <<activeInvites, ledger>>
    ELSE LET invite == activeInvites[inviteId]
             cs == <<Call(invite.fromUserId,
                          [type |-> "game_invite_declined", invite_id |-> inviteId])>>
         IN /\ activeInvites' = MapDelete(activeInvites, inviteId)
            /\ Sends(cs)
            /\ ledger' = Log(inviteId, <<"decline">> \o Notices(cs, invite.fromUserId))

\* handleInviteDecline(decliningUserId, inviteId)
handleInviteDecline(decliningUserId, inviteId) ==
    IF \/ inviteId \notin DOMAIN activeInvites
       \/ activeInvites[inviteId].toUserId # decliningUserId
    THEN /\ Sends(<<>>)
         /\ UNCHANGED <<activeInvites, ledger>>
    ELSE LET invite == activeInvites[inviteId]
             cs == <<Call(invite.fromUserId,
                          [type |-> "game_invite_declined", invite_id |-> inviteId])>>
         IN /\ activeInvites' = MapDelete(activeInvites, inviteId)
            /\ Sends(cs)
            /\ ledger' = Log(inviteId, <<"decline">> \o Notices(cs, invite.fromUserId))

\* --------------------------------------------------------------- sessions
\* relayPaddleUpdate(fromUserId, gameId, paddleY)
relayPaddleUpdate(fromUserId, gameId, paddleY) ==
    IF gameId \notin DOMAIN activeGames
    THEN Sends(<<>>)
    ELSE LET game == activeGames[gameId]
             targetUserId == IF game.hostId = fromUserId THEN game.guestId ELSE game.hostId
         IN Sends(<<Call(targetUserId, [type |-> "game_paddle_update",
                                        game_id |-> gameId, paddle_y |-> paddleY])>>)

\* a relay without the host test
relayGameStateAnySender(fromUserId, gameId, state) ==
    IF gameId \notin DOMAIN activeGames
    THEN Sends(<<>>)
    ELSE Sends(<<Call(activeGames[gameId].guestId,
                      [type |-> "game_state", game_id |-> gameId, state |-> state])>>)

\* relayGameState(fromUserId, gameId, state)
relayGameState(fromUserId, gameId, state) ==
    IF gameId \notin DOMAIN activeGames \/ activeGames[gameId].hostId # fromUserId
    THEN Sends(<<>>)
    ELSE Sends(<<Call(activeGames[gameId].guestId,
                      [type |-> "game_state", game_id |-> gameId, state |-> state])>>)

\* a tail that forgets activeGames.delete(gameId)
EndGameKeepsSession(t) ==
    /\ Sends(LET endMessage == [type |-> "game_ended", game_id |-> t.gameId,
                                winner_id |-> t.winnerId, left_score |-> t.leftScore,
                                right_score |-> t.rightScore]
             IN <<Call(t.game.hostId, endMessage), Call(t.game.guestId, endMessage)>>)
    /\ UNCHANGED activeGames

\* a tail that also removes the other sessions of the two players
EndGameEndsPlayers(t) ==
    /\ Sends(LET endMessage == [type |-> "game_ended", game_id |-> t.gameId,
                                winner_id |-> t.winnerId, left_score |-> t.leftScore,
                                right_score |-> t.rightScore]
             IN <<Call(t.game.hostId, endMessage), Call(t.game.guestId, endMessage)>>)
    /\ activeGames' = [g \in {x \in DOMAIN activeGames :
                                 /\ activeGames[x].hostId \notin {t.game.hostId, t.game.guestId}
                                 /\ activeGames[x].guestId \notin {t.game.hostId, t.game.guestId}}
                          |-> activeGames[g]]

\* the tail of handleGameEnd: notify both players, delete the session
EndGame(t) ==
    /\ Sends(LET endMessage == [type |-> "game_ended", game_id |-> t.gameId,
                                winner_id |-> t.winnerId, left_score |-> t.leftScore,
                                right_score |-> t.rightScore]
             IN <<Call(t.game.hostId, endMessage), Call(t.game.guestId, endMessage)>>)
    /\ activeGames' = MapDelete(activeGames, t.gameId)

\* a handler that ignores a game_end from a user who is not in the session
handleGameEndPlayersOnly(fromUserId, gameId, winnerId, leftScore, rightScore) ==
    IF \/ gameId \notin DOMAIN activeGames
       \/ fromUserId \notin {activeGames[gameId].hostId, activeGames[gameId].guestId}
    THEN /\ Sends(<<>>)
         /\ UNCHANGED <<activeGames, updating>>
    ELSE LET t == [game |-> activeGames[gameId], gameId |-> gameId, winnerId |-> winnerId,
                   leftScore |-> leftScore, rightScore |-> rightScore]
         IN IF t.game.dbGameId # 0
            THEN /\ updating' = updating (+) SetToBag({t})
                 /\ Sends(<<>>)
                 /\ UNCHANGED activeGames
            ELSE /\ EndGame(t)
                 /\ UNCHANGED updating

\* handleGameEnd up to its await of prisma.game.update (no await without a row id)
handleGameEnd(fromUserId, gameId, winnerId, leftScore, rightScore) ==
    IF gameId \notin DOMAIN activeGames
    THEN /\ Sends(<<>>)
         /\ UNCHANGED <<activeGames, updating>>
    ELSE LET t == [game |-> activeGames[gameId], gameId |-> gameId, winnerId |-> winnerId,
                   leftScore |-> leftScore, rightScore |-> rightScore]
         IN IF t.game.dbGameId # 0
            THEN /\ updating' = updating (+) SetToBag({t})
                 /\ Sends(<<>>)
                 /\ UNCHANGED activeGames
            ELSE /\ EndGame(t)
                 /\ UNCHANGED updating

\* the row after prisma.game.update({ where: { id }, data })
UpdatedRows(t) ==
    [dbGames EXCEPT ![t.game.dbGameId] =
        [@ EXCEPT !.player1Score = t.leftScore, !.player2Score = t.rightScore,
                  !.winnerId = t.winnerId]]

\* handleGameEnd from the moment prisma.game.update resolves
UpdateResolved(t) ==
    /\ BagIn(t, updating)
    /\ updating' = updating (-) SetToBag({t})
    /\ dbGames' = UpdatedRows(t)
    /\ EndGame(t)
    /\ last' = [kind |-> "updated", task |-> t]
    /\ UNCHANGED <<limits, clients, conn, nextSock, activeInvites, timers, nextId, creating, ledger>>

\* a handler that ends the session although the update failed
UpdateRejectedEnds(t) ==
    /\ BagIn(t, updating)
    /\ updating' = updating (-) SetToBag({t})
    /\ EndGame(t)
    /\ last' = [kind |-> "update_failed", task |-> t]
    /\ UNCHANGED <<limits, clients, conn, nextSock, activeInvites, timers,
                   nextId, dbGames, creating, ledger>>

\* prisma.game.update rejects: the throw reaches the catch of the message handler
UpdateRejected(t) ==
    /\ BagIn(t, updating)
    /\ updating' = updating (-) SetToBag({t})
    /\ Sends(<<>>)
    /\ last' = [kind |-> "update_failed", task |-> t]
    /\ UNCHANGED <<limits, clients, conn, nextSock, activeInvites, timers, activeGames,
                   nextId, dbGames, creating, ledger>>

\* a router whose paddle relay also drops the session it relays for
OnMessageRelayEnds(s, message) ==
    /\ IsOpen(s)
    /\ last' = IF message.type = "ping"
               THEN [kind |-> "frame", user |-> conn[s].userId, sock |-> s,
                     frame |-> message]
               ELSE [kind |-> "frame", user |-> conn[s].userId, frame |-> message]
    /\ UNCHANGED <<limits, clients, conn, nextSock, dbGames>>
    /\ LET userId == conn[s].userId
       IN CASE message.type = "ping" ->
                 /\ wire' = SocketSend(Quiet, s, [type |-> "pong"])
                 /\ calls' = <<>>
                 /\ UNCHANGED <<activeInvites, timers, activeGames, nextId,
                                creating, updating, ledger>>
            [] message.type = "game_invite" ->
                 /\ handleGameInvite(userId, message.to_user_id)
                 /\ UNCHANGED <<activeGames, creating, updating>>
            [] message.type = "game_invite_accept" ->
                 /\ handleInviteAccept(userId, message.invite_id)
                 /\ UNCHANGED <<timers, activeGames, nextId, updating>>
            [] message.type = "game_invite_decline" ->
                 /\ handleInviteDecline(userId, message.invite_id)
                 /\ UNCHANGED <<timers, activeGames, nextId, creating, updating>>
            [] message.type = "game_paddle_update" ->
                 /\ relayPaddleUpdate(userId, message.game_id, message.paddle_y)
                 /\ activeGames' = MapDelete(activeGames, message.game_id)
                 /\ UNCHANGED <<activeInvites, timers, nextId,
                                creating, updating, ledger>>
            [] message.type = "game_state" ->
                 /\ relayGameState(userId, message.game_id, message.state)
                 /\ UNCHANGED <<activeInvites, timers, activeGames, nextId,
                                creating, updating, ledger>>
            [] message.type = "game_end" ->
                 /\ handleGameEnd(userId, message.game_id, message.winner_id,
                                  message.left_score, message.right_score)
                 /\ UNCHANGED <<activeInvites, timers, nextId, creating, ledger>>
            [] OTHER ->
                 /\ Sends(<<>>)
                 /\ UNCHANGED <<activeInvites, timers, activeGames, nextId,
                                creating, updating, ledger>>

\* ------------------------------------------------------------ the router
\* socket.on('message'): JSON.parse, then the switch on message.type
OnMessage(s, message) ==
    /\ IsOpen(s)
    /\ last' = IF message.type = "ping"
               THEN [kind |-> "frame", user |-> conn[s].userId, sock |-> s,
                     frame |-> message]
               ELSE [kind |-> "frame", user |-> conn[s].userId, frame |-> message]
    /\ UNCHANGED <<limits, clients, conn, nextSock, dbGames>>
    /\ LET userId == conn[s].userId
       IN CASE message.type = "ping" ->
                 /\ wire' = SocketSend(Quiet, s, [type |-> "pong"])
                 /\ calls' = <<>>
                 /\ UNCHANGED <<activeInvites, timers, activeGames, nextId,
                                creating, updating, ledger>>
            [] message.type = "game_invite" ->
                 /\ handleGameInvite(userId, message.to_user_id)
                 /\ UNCHANGED <<activeGames, creating, updating>>
            [] message.type = "game_invite_accept" ->
                 /\ handleInviteAccept(userId, message.invite_id)
                 /\ UNCHANGED <<timers, activeGames, nextId, updating>>
            [] message.type = "game_invite_decline" ->
                 /\ handleInviteDecline(userId, message.invite_id)
                 /\ UNCHANGED <<timers, activeGames, nextId, creating, updating>>
            [] message.type = "game_paddle_update" ->
                 /\ relayPaddleUpdate(userId, message.game_id, message.paddle_y)
                 /\ UNCHANGED <<activeInvites, timers, activeGames, nextId,
                                creating, updating, ledger>>
            [] message.type = "game_state" ->
                 /\ relayGameState(userId, message.game_id, message.state)
                 /\ UNCHANGED <<activeInvites, timers, activeGames, nextId,
                                creating, updating, ledger>>
            [] message.type = "game_end" ->
                 /\ handleGameEnd(userId, message.game_id, message.winner_id,
                                  message.left_score, message.right_score)
                 /\ UNCHANGED <<activeInvites, timers, nextId, creating, ledger>>
            [] OTHER ->
                 /\ Sends(<<>>)
                 /\ UNCHANGED <<activeInvites, timers, activeGames, nextId,
                                creating, updating, ledger>>

\* ids a frame can carry: the id of every invite (every session) there ever
\* was, and one id that was never handed out
FrameInviteIds == DOMAIN ledger \cup {nextId}
FrameGameIds == (1 .. nextId) \ DOMAIN ledger

\* user ids a frame or an event can name: those in use and one newcomer
FrameUsers == {u \in Users : InOrder(GoodToken(u))}

\* the winner ids a game_end frame can carry
FrameWinners == {u \in FrameUsers : u <= limits.winners}

FramePing(s) == OnMessage(s, [type |-> "ping"])

FrameGameInvite(s, to) ==
    /\ to \in DOMAIN clients => Invited < limits.invites
    /\ OnMessage(s, [type |-> "game_invite", to_user_id |-> to])

FrameInviteAccept(s, i) ==
    /\ i \in DOMAIN activeInvites => Pending < limits.pending
    /\ OnMessage(s, [type |-> "game_invite_accept", invite_id |-> i])

FrameInviteDecline(s, i) ==
    OnMessage(s, [type |-> "game_invite_decline", invite_id |-> i])

FramePaddleUpdate(s, g, y) ==
    OnMessage(s, [type |-> "game_paddle_update", game_id |-> g, paddle_y |-> y])

FrameGameState(s, g, st) ==
    OnMessage(s, [type |-> "game_state", game_id |-> g, state |-> st])

FrameGameEnd(s, g, w, l, r) ==
    /\ g \in DOMAIN activeGames => Pending < limits.pending
    /\ OnMessage(s, [type |-> "game_end", game_id |-> g, winner_id |-> w,
                     left_score |-> l, right_score |-> r])

\* a frame of a type the switch has no case for
FrameUnknown(s) == OnMessage(s, [type |-> "hello"])

\* a handler without the try/catch: the throw of JSON.parse ends the connection
FrameUnparseableCloses(s) ==
    /\ IsOpen(s)
    /\ Sends(<<>>)
    /\ clients' = Unregister(conn[s].userId, s)
    /\ conn' = MapDelete(conn, s)
    /\ last' = [kind |-> "garbage", user |-> conn[s].userId]
    /\ UNCHANGED <<limits, nextSock, activeInvites, timers, activeGames,
                   nextId, dbGames, creating, updating, ledger>>

\* a frame JSON.parse throws on: the catch logs it
FrameUnparseable(s) ==
    /\ IsOpen(s)
    /\ Sends(<<>>)
    /\ last' = [kind |-> "garbage", user |-> conn[s].userId]
    /\ UNCHANGED <<limits, clients, conn, nextSock, activeInvites, timers, activeGames,
                   nextId, dbGames, creating, updating, ledger>>

\* ------------------------------------------------------- the chat bridge
\* a bridge that pushes the message to every registered socket
ChatMessageToAll(data) ==
    /\ wire' = [s \in Sockets |->
                  IF \E u \in DOMAIN clients : s \in clients[u]
                  THEN <<[type |-> "new_message", from |-> data.from,
                          content |-> data.content, messageId |-> data.messageId]>>
                  ELSE <<>>]
    /\ calls' = <<>>
    /\ last' = [kind |-> "chat", data |-> data]
    /\ UNCHANGED <<limits, clients, conn, nextSock, activeInvites, timers, activeGames,
                   nextId, dbGames, creating, updating, ledger>>

\* the subscribeToChannel('chat:message') callback
ChatMessage(data) ==
    /\ wire' = IF data.to \in DOMAIN clients
               THEN [s \in Sockets |->
                       IF s \in clients[data.to]
                       THEN <<[type |-> "new_message", from |-> data.from,
                               content |-> data.content, messageId |-> data.messageId]>>
                       ELSE <<>>]
               ELSE Quiet
    /\ calls' = <<>>
    /\ last' = [kind |-> "chat", data |-> data]
    /\ UNCHANGED <<limits, clients, conn, nextSock, activeInvites, timers, activeGames,
                   nextId, dbGames, creating, updating, ledger>>

ChatEvents == {[to |-> u, from |-> v, content |-> 1, messageId |-> 1] :
                  u \in FrameUsers, v \in {NoUser}}

Next ==
    \/ \E token \in Tokens :
          Connect(token) /\ Remember
    \/ \E s \in Sockets :
          Close(s) /\ Remember
    \/ \E s \in Sockets :
          FramePing(s) /\ Remember
    \/ \E s \in Sockets, to \in FrameUsers :
          FrameGameInvite(s, to) /\ Remember
    \/ \E s \in Sockets, i \in FrameInviteIds :
          FrameInviteAccept(s, i) /\ Remember
    \/ \E s \in Sockets, i \in FrameInviteIds :
          FrameInviteDecline(s, i) /\ Remember
    \/ \E s \in Sockets, g \in FrameGameIds, y \in PaddleYs :
          FramePaddleUpdate(s, g, y) /\ Remember
    \/ \E s \in Sockets, g \in FrameGameIds, st \in GameStates :
          FrameGameState(s, g, st) /\ Remember
    \/ \E s \in Sockets, g \in FrameGameIds, w \in FrameWinners, sc \in ScoreLines :
          FrameGameEnd(s, g, w, sc.left, sc.right) /\ Remember
    \/ \E s \in Sockets :
          FrameUnknown(s) /\ Remember
    \/ \E s \in Sockets :
          FrameUnparseable(s) /\ Remember
    \/ \E tm \in timers :
          TimerFire(tm) /\ Remember
    \/ \E t \in BagToSet(creating) :
          CreateResolved(t) /\ Remember
    \/ \E t \in BagToSet(creating) :
          CreateRejected(t) /\ Remember
    \/ \E t \in BagToSet(updating) :
          UpdateResolved(t) /\ Remember
    \/ \E t \in BagToSet(updating) :
          UpdateRejected(t) /\ Remember
    \/ \E data \in ChatEvents :
          ChatMessage(data) /\ Remember

Spec == Init /\ [][Next]_vars

\* ------------------------------------------------------------------ C1
\* the sockets that completed the handshake for user u and have not closed
LiveSockets(u) == {s \in DOMAIN conn : conn[s].userId = u}

\* C1: a user id is a key of the connection table exactly when a socket
\* registered for it has not closed yet, the entry holds exactly those
\* sockets, and no entry is empty.
C1_Presence ==
    /\ \A u \in Users : (u \in DOMAIN clients) <=> (LiveSockets(u) # {})
    /\ \A u \in DOMAIN clients : clients[u] = LiveSockets(u) /\ clients[u] # {}

\* one of a user's several sockets has just closed and the user is still online
C1_Witness ==
    /\ last.kind = "close"
    /\ last.user \in DOMAIN clients
    /\ last.sock \notin clients[last.user]

\* ------------------------------------------------------- claim vocabulary
Events(i) == ledger[i].events

\* Events in the state the last step started from
EventsBefore(i) == pre.ledger[i].events
Happened(i, e) == \E k \in 1 .. Len(Events(i)) : Events(i)[k] = e

\* Happened in the state the last step started from
HappenedBefore(i, e) == \E k \in 1 .. Len(EventsBefore(i)) : EventsBefore(i)[k] = e

ResolutionKinds == {"accept", "decline", "expire"}
NoticeKinds == {"game_invite_accepted", "game_invite_declined", "game_invite_expired"}
CountIn(seq, S) == Cardinality({k \in 1 .. Len(seq) : seq[k] \in S})

\* the step just taken handled a frame of this type
FrameOf(l, type) == l.kind = "frame" /\ l.frame.type = type

\* ------------------------------------------------------------------ C2
\* at most one session was ever inserted for each invite
C2_OneSession == \A i \in DOMAIN ledger : Count(Events(i), "session") <= 1

\* an accept or a decline that names an already accepted invite adds no
\* continuation and leaves the invite table and the session table alone
C2_LateFrame ==
    (/\ FrameOf(last, "game_invite_accept") \/ FrameOf(last, "game_invite_decline")
     /\ last.frame.invite_id \in DOMAIN pre.ledger
     /\ HappenedBefore(last.frame.invite_id, "accept"))
    => /\ activeInvites = pre.activeInvites
       /\ activeGames = pre.activeGames
       /\ creating = pre.creating
       /\ dbGames = pre.dbGames

\* C2: no duplicate session per invite: under every interleaving of accept
\* frames, decline frames and the timer, at most one session is ever created
\* from an invite, and a second accept or a decline after a successful accept
\* creates none and changes neither the invite table nor the session table.
C2_NoDuplicateSession == C2_OneSession /\ C2_LateFrame

\* the invitee accepts again after the session of the invite was created
C2_Witness ==
    /\ FrameOf(last, "game_invite_accept")
    /\ last.frame.invite_id \in DOMAIN ledger
    /\ last.user = ledger[last.frame.invite_id].toUserId
    /\ Happened(last.frame.invite_id, "session")
    /\ calls = <<NotFoundCall(last.user)>>

\* ------------------------------------------------------------------ C3
\* each invite is resolved at most once, its inviter is told of at most one
\* kind of outcome, the one that took effect, and (when the inviter is not
\* the invitee as well) in at most one envelope
C3_OneResolution ==
    \A i \in DOMAIN ledger :
        /\ CountIn(Events(i), ResolutionKinds) <= 1
        /\ Cardinality({e \in NoticeKinds : Happened(i, e)}) <= 1
        /\ ledger[i].fromUserId # ledger[i].toUserId => CountIn(Events(i), NoticeKinds) <= 1
        /\ Happened(i, "game_invite_accepted") => Happened(i, "accept")
        /\ Happened(i, "game_invite_declined") => Happened(i, "decline")
        /\ Happened(i, "game_invite_expired") => Happened(i, "expire")

\* a timer that fires after an accept or a decline sends nothing and changes
\* no table
C3_LateTimer ==
    (/\ last.kind = "timer"
     /\ last.invite_id \in DOMAIN pre.ledger
     /\ HappenedBefore(last.invite_id, "accept") \/ HappenedBefore(last.invite_id, "decline"))
    => /\ calls = <<>>
       /\ wire = Quiet
       /\ tables = tablesBefore
       /\ ledger = pre.ledger

\* C3: invite resolution is exclusive: at most one of accept, decline and
\* expiry takes effect for an invite, so its inviter is sent at most one of
\* game_invite_accepted, game_invite_declined, game_invite_expired; a timer
\* firing after an accept or a decline sends nothing and changes no table.
C3_ExclusiveResolution == C3_OneResolution /\ C3_LateTimer

\* the timer of an accepted invite has just fired
C3_Witness ==
    /\ last.kind = "timer"
    /\ last.invite_id \in DOMAIN ledger
    /\ Happened(last.invite_id, "game_invite_accepted")
    /\ calls = <<>>

\* ------------------------------------------------------------------ C4
\* every id generateId can hand out within the bounds
AllIds == 1 .. 2 * FewInvites

\* every timer handleGameInvite can set
TimerUniverse == [inviteId : AllIds, fromUserId : Users]

\* the runs with two invites
PairInit == Fresh /\ limits = Paired

PairSpec == PairInit /\ [][Next]_vars

\* the runs with two handlers suspended at once
TwinInit == Fresh /\ limits = Twin

TwinSpec == TwinInit /\ [][Next]_vars

\* the event loop runs every callback that setTimeout scheduled
LiveSpec ==
    Init /\ [][Next]_vars /\ \A tm \in TimerUniverse : WF_vars(TimerFire(tm) /\ Remember)

\* a stored invite does not stay stored for ever
C4_Leaves == \A i \in AllIds : (i \in DOMAIN activeInvites) ~> (i \notin DOMAIN activeInvites)

\* a stored invite has its timer pending
C4_TimerSet ==
    \A i \in DOMAIN activeInvites :
        [inviteId |-> i, fromUserId |-> activeInvites[i].fromUserId] \in timers

\* an invite leaves the table only by its invitee's accept or decline or by
\* its own timer, and the timer step sends game_invite_expired with the
\* invite's id to the inviter
C4_Step ==
    \A i \in DOMAIN activeInvites :
        i \notin DOMAIN activeInvites' =>
            \/ /\ FrameOf(last', "game_invite_accept") \/ FrameOf(last', "game_invite_decline")
               /\ last'.frame.invite_id = i
               /\ last'.user = activeInvites[i].toUserId
            \/ /\ last'.kind = "timer"
               /\ last'.invite_id = i
               /\ [inviteId |-> i, fromUserId |-> activeInvites[i].fromUserId]
                      \in timers \ timers'
               /\ calls' = <<Call(activeInvites[i].fromUserId,
                                  [type |-> "game_invite_expired", invite_id |-> i])>>
               /\ \A s \in Sockets :
                      wire'[s] = IF /\ activeInvites[i].fromUserId \in DOMAIN clients
                                    /\ s \in clients[activeInvites[i].fromUserId]
                                 THEN <<[type |-> "game_invite_expired", invite_id |-> i]>>
                                 ELSE <<>>

\* C4: invite expiry liveness: every stored invite that is never accepted
\* or declined is eventually removed by its timer, which at that step sends
\* game_invite_expired with the invite's id to the inviter; nothing else
\* removes it, so no stored invite stays pending for ever.
C4_ExpiryLiveness == C4_Leaves /\ []C4_TimerSet /\ [][C4_Step]_vars

\* the timer has just removed a pending invite and told the inviter
C4_Witness ==
    /\ last.kind = "timer"
    /\ last.invite_id \in DOMAIN ledger
    /\ Events(last.invite_id) = <<"expire", "game_invite_expired">>
    /\ \E s \in Sockets :
           wire[s] = <<[type |-> "game_invite_expired", invite_id |-> last.invite_id]>>

\* ------------------------------------------------------------------ C5
\* the writes of one envelope m to the sockets of user u, and no other write
OnlyTo(u, m) ==
    [s \in Sockets |-> IF u \in DOMAIN clients /\ s \in clients[u] THEN <<m>> ELSE <<>>]

\* OnlyTo in the state the last step started from
OnlyToBefore(u, m) ==
    [s \in Sockets |-> IF u \in DOMAIN pre.clients /\ s \in pre.clients[u] THEN <<m>> ELSE <<>>]

\* an accept naming an invite that its timer removed is answered with the
\* not-found error, to the sender alone, and starts nothing
C5_LateAccept ==
    (/\ FrameOf(last, "game_invite_accept")
     /\ last.frame.invite_id \in DOMAIN pre.ledger
     /\ HappenedBefore(last.frame.invite_id, "expire"))
    => /\ calls = <<NotFoundCall(last.user)>>
       /\ wire = OnlyToBefore(last.user, NotFoundCall(last.user).msg)
       /\ creating = pre.creating
       /\ tables = tablesBefore
       /\ dbGames = pre.dbGames

\* an expired invite never has a session, nor a handler about to create one
C5_NoSession ==
    \A i \in DOMAIN ledger :
        Happened(i, "expire") =>
            /\ ~Happened(i, "session")
            /\ \A t \in BagToSet(creating) : t.invite.id # i
            /\ \A g \in DOMAIN activeGames : g # i

\* C5: accept after expiry: once the timer has removed an invite, a later
\* game_invite_accept for that id from the original invitee is answered with
\* the not-found error to that user only and creates no session and no
\* persisted match record.
C5_AcceptAfterExpiry == C5_NoSession /\ C5_LateAccept

\* the original invitee has just accepted an invite that had expired
C5_Witness ==
    /\ FrameOf(last, "game_invite_accept")
    /\ last.frame.invite_id \in DOMAIN ledger
    /\ Happened(last.frame.invite_id, "expire")
    /\ last.user = ledger[last.frame.invite_id].toUserId
    /\ last.user # ledger[last.frame.invite_id].fromUserId
    /\ \E s \in Sockets : wire[s] = <<NotFoundCall(last.user).msg>>

\* ------------------------------------------------------------------ C6
\* C6: host authority: a game_state frame for a live session from any user
\* other than its host (the guest in particular) delivers no envelope to
\* anyone and leaves the connection, invite and session tables unchanged.
C6_Step ==
    (/\ FrameOf(last, "game_state")
     /\ last.frame.game_id \in DOMAIN pre.activeGames
     /\ pre.activeGames[last.frame.game_id].hostId # last.user)
    => /\ wire = Quiet
       /\ calls = <<>>
       /\ tables = tablesBefore

C6_HostAuthority == C6_Step

\* the guest of a live session has just sent game_state for it
C6_Witness ==
    /\ FrameOf(last, "game_state")
    /\ last.frame.game_id \in DOMAIN activeGames
    /\ activeGames[last.frame.game_id].guestId = last.user
    /\ activeGames[last.frame.game_id].hostId # last.user
    /\ activeGames[last.frame.game_id].hostId \in DOMAIN clients
    /\ wire = Quiet

\* ------------------------------------------------------------------ C7
\* C7: a game_state frame sent by the host of a live session is delivered to
\* every live socket of the guest and to no socket of the host.
C7_HostStateReachesGuestOnly ==
    (/\ FrameOf(last, "game_state")
     /\ last.frame.game_id \in DOMAIN activeGames
     /\ activeGames[last.frame.game_id].hostId = last.user)
    => LET game == activeGames[last.frame.game_id]
           m == [type |-> "game_state", game_id |-> last.frame.game_id,
                 state |-> last.frame.state]
       IN /\ game.guestId \in DOMAIN clients => \A s \in clients[game.guestId] : wire[s] = <<m>>
          /\ game.hostId \in DOMAIN clients => \A s \in clients[game.hostId] : wire[s] = <<>>

\* ------------------------------------------------------------------ C8
\* C8: relayPaddle never echoes: no socket of the user who sent a
\* game_paddle_update for a live session receives the resulting envelope.
C8_PaddleNeverEchoes ==
    (/\ FrameOf(last, "game_paddle_update")
     /\ last.frame.game_id \in DOMAIN activeGames
     /\ last.user \in DOMAIN clients)
    => \A s \in clients[last.user] : wire[s] = <<>>

\* ------------------------------------------------------------------ C9
\* C9: every session in the live session table binds two distinct users.
C9_DistinctPlayers ==
    \A g \in DOMAIN activeGames : activeGames[g].hostId # activeGames[g].guestId

\* ----------------------------------------------------------------- C10
\* a session enters the table only when an accept of a stored invite resumes,
\* with the invite's inviter as host and its invitee as guest
C10_Born ==
    \A g \in DOMAIN activeGames \ DOMAIN pre.activeGames :
        /\ last.kind = "created"
        /\ last.game_id = g
        /\ BagIn(last.task, pre.creating)
        /\ LET i == last.task.invite.id
           IN /\ i \in DOMAIN pre.ledger
              /\ EventsBefore(i) = <<"accept">>
              /\ i \notin DOMAIN pre.activeInvites
              /\ activeGames[g].hostId = pre.ledger[i].fromUserId
              /\ activeGames[g].guestId = pre.ledger[i].toUserId

\* no step changes a session that stays in the table
C10_Fixed ==
    \A g \in DOMAIN pre.activeGames \cap DOMAIN activeGames : activeGames[g] = pre.activeGames[g]

\* a suspended accept holds the invite exactly as it was stored, taken by its invitee
C10_Task ==
    \A t \in BagToSet(creating) :
        /\ t.invite.id \in DOMAIN ledger
        /\ t.invite.fromUserId = ledger[t.invite.id].fromUserId
        /\ t.invite.toUserId = ledger[t.invite.id].toUserId
        /\ t.acceptingUserId = t.invite.toUserId

\* C10: sessions arise only from accepted invites and their roles are fixed:
\* every live session was inserted by a successful accept of a stored invite,
\* with that invite's inviter as host and its invitee as guest, and no
\* operation changes the host or the guest of an existing session.
C10_SessionsFromInvites == C10_Task /\ C10_Born /\ C10_Fixed

\* a session between two different users has just been created
C10_Witness ==
    /\ last.kind = "created"
    /\ last.game_id \in DOMAIN activeGames
    /\ activeGames[last.game_id].hostId # activeGames[last.game_id].guestId

\* ----------------------------------------------------------------- C11
\* the reply of handleGameInvite when the target has no entry in clients
OfflineCall(fromUserId) ==
    Call(fromUserId, [type |-> "game_invite_error", error |-> "User is not online"])

\* C11: inviting an offline user: a game_invite frame whose target has no live
\* connection when it is handled sends game_invite_error 'User is not online'
\* to the inviter, stores no invite, schedules no expiry timer and sends
\* nothing to the target.
C11_Step ==
    (/\ FrameOf(last, "game_invite")
     /\ last.frame.to_user_id \notin DOMAIN pre.clients)
    => /\ calls = <<OfflineCall(last.user)>>
       /\ wire = OnlyToBefore(last.user, OfflineCall(last.user).msg)
       /\ activeInvites = pre.activeInvites
       /\ timers = pre.timers
       /\ nextId = pre.nextId
       /\ ledger = pre.ledger
       /\ activeGames = pre.activeGames

C11_InviteOffline == C11_Step

\* a user with two sockets has just invited a user who is not connected
C11_Witness ==
    /\ FrameOf(last, "game_invite")
    /\ last.frame.to_user_id \notin DOMAIN clients
    /\ last.user \in DOMAIN clients
    /\ Cardinality(clients[last.user]) = 2
    /\ \A s \in clients[last.user] : wire[s] = <<OfflineCall(last.user).msg>>
    /\ activeInvites = EmptyMap

\* ----------------------------------------------------------------- C12
\* the envelopes of one type in what a socket was written
OfType(es, type) == SelectSeq(es, LAMBDA m : m.type = type)

\* C12: inviting an online user: a game_invite frame whose target has a live
\* connection adds exactly one pending invite under a fresh id (inviter =
\* sender, invitee = target), sends one game_invite envelope to every live
\* socket of the invitee and one game_invite_sent envelope with the same id to
\* the inviter, and schedules exactly one expiry timer for that id; existing
\* invites and all sessions are unchanged.
C12_Step ==
    (/\ FrameOf(last, "game_invite")
     /\ last.frame.to_user_id \in DOMAIN pre.clients)
    => LET from == last.user
           to == last.frame.to_user_id
           news == DOMAIN activeInvites \ DOMAIN pre.activeInvites
       IN /\ Cardinality(news) = 1
          /\ \A i \in news :
                /\ i \notin DOMAIN pre.ledger
                /\ i \notin DOMAIN pre.activeGames
                /\ \A t \in BagToSet(pre.updating) : t.gameId # i
                /\ activeInvites[i] = [id |-> i, fromUserId |-> from, toUserId |-> to]
                /\ timers \ pre.timers = {[inviteId |-> i, fromUserId |-> from]}
                /\ pre.timers \subseteq timers
                /\ \A tm \in pre.timers : tm.inviteId # i
                /\ \A s \in Sockets :
                      /\ OfType(wire[s], "game_invite") =
                            IF s \in pre.clients[to]
                            THEN <<[type |-> "game_invite",
                                    invite |-> [id |-> i, from_user_id |-> from]]>>
                            ELSE <<>>
                      /\ OfType(wire[s], "game_invite_sent") =
                            IF from \in DOMAIN pre.clients /\ s \in pre.clients[from]
                            THEN <<[type |-> "game_invite_sent", invite_id |-> i,
                                    to_user_id |-> to]>>
                            ELSE <<>>
                      /\ Len(wire[s]) = Len(OfType(wire[s], "game_invite"))
                                         + Len(OfType(wire[s], "game_invite_sent"))
          /\ \A i \in DOMAIN pre.activeInvites :
                i \in DOMAIN activeInvites /\ activeInvites[i] = pre.activeInvites[i]
          /\ activeGames = pre.activeGames

C12_InviteOnline == C12_Step

\* a user has just invited another user while an earlier invite is still pending
C12_Witness ==
    /\ FrameOf(last, "game_invite")
    /\ last.frame.to_user_id \in DOMAIN clients
    /\ last.frame.to_user_id # last.user
    /\ \E i \in DOMAIN activeInvites :
          /\ i + 1 = nextId
          /\ activeInvites[i].fromUserId = last.user
          /\ activeInvites[i].toUserId = last.frame.to_user_id
          /\ [inviteId |-> i, fromUserId |-> last.user] \in timers
          /\ \A s \in clients[last.frame.to_user_id] : Len(wire[s]) = 1
          /\ \E j \in DOMAIN activeInvites : j # i

\* ----------------------------------------------------------------- C13
\* the timer of a stored invite
TimerOf(i) == [inviteId |-> i, fromUserId |-> activeInvites[i].fromUserId]

\* TimerOf in the state the last step started from
TimerOfBefore(i) == [inviteId |-> i, fromUserId |-> pre.activeInvites[i].fromUserId]

\* C13: unauthorized or unknown accept: a game_invite_accept whose invite id is
\* absent, or whose sender is not the invite's invitee (the inviter included),
\* fails with the not-found error; the invite, if any, stays pending with its
\* timer, so it can still be accepted, declined or expired, and no session or
\* match record is created.
C13_Step ==
    (/\ FrameOf(last, "game_invite_accept")
     /\ \/ last.frame.invite_id \notin DOMAIN pre.activeInvites
        \/ pre.activeInvites[last.frame.invite_id].toUserId # last.user)
    => /\ calls = <<NotFoundCall(last.user)>>
       /\ wire = OnlyToBefore(last.user, NotFoundCall(last.user).msg)
       /\ activeInvites = pre.activeInvites
       /\ timers = pre.timers
       /\ \A i \in DOMAIN pre.activeInvites : TimerOfBefore(i) \in timers
       /\ creating = pre.creating
       /\ activeGames = pre.activeGames
       /\ dbGames = pre.dbGames
       /\ ledger = pre.ledger

C13_RefusedAccept == C13_Step

\* the inviter has just tried to accept the invite they sent to another user,
\* who is connected: the invite is still stored and its timer still pending
C13_Witness ==
    /\ FrameOf(last, "game_invite_accept")
    /\ last.frame.invite_id \in DOMAIN activeInvites
    /\ activeInvites[last.frame.invite_id].fromUserId = last.user
    /\ activeInvites[last.frame.invite_id].toUserId # last.user
    /\ activeInvites[last.frame.invite_id].toUserId \in DOMAIN clients
    /\ TimerOf(last.frame.invite_id) \in timers
    /\ calls = <<NotFoundCall(last.user)>>

\* ----------------------------------------------------------------- C14
\* the game_invite_accepted envelopes among the calls cs addressed to userId
AcceptedFor(cs, userId) ==
    SelectSeq(cs, LAMBDA c : c.to = userId /\ c.msg.type = "game_invite_accepted")

\* C14: when an accept succeeds and the match record is created, the inviter
\* and the invitee are each sent exactly one game_invite_accepted envelope
\* carrying the same session id, with is_host true for the inviter and false
\* for the invitee, each naming the other as opponent.
C14_AcceptedNotifications ==
    last.kind = "created" =>
        LET inviter == last.task.invite.fromUserId
            invitee == last.task.invite.toUserId
            toInviter == AcceptedFor(calls, inviter)
            toInvitee == AcceptedFor(calls, invitee)
        IN /\ Len(toInviter) = 1
           /\ Len(toInvitee) = 1
           /\ toInviter[1].msg.game_id = last.game_id
           /\ toInvitee[1].msg.game_id = last.game_id
           /\ toInviter[1].msg.is_host /\ toInviter[1].msg.opponent_id = invitee
           /\ ~toInvitee[1].msg.is_host /\ toInvitee[1].msg.opponent_id = inviter

\* ----------------------------------------------------------------- C15
\* the envelope handleInviteDecline sends to the inviter
DeclinedCall(inviteId) ==
    Call(activeInvites[inviteId].fromUserId,
         [type |-> "game_invite_declined", invite_id |-> inviteId])

\* DeclinedCall in the state the last step started from
DeclinedCallBefore(inviteId) ==
    Call(pre.activeInvites[inviteId].fromUserId,
         [type |-> "game_invite_declined", invite_id |-> inviteId])

C15_Step ==
    FrameOf(last, "game_invite_decline") =>
        LET i == last.frame.invite_id
        IN /\ IF i \notin DOMAIN pre.activeInvites \/ pre.activeInvites[i].toUserId # last.user
              THEN /\ calls = <<>>
                   /\ wire = Quiet
                   /\ activeInvites = pre.activeInvites
              ELSE /\ calls = <<DeclinedCallBefore(i)>>
                   /\ wire = OnlyToBefore(pre.activeInvites[i].fromUserId, DeclinedCallBefore(i).msg)
                   /\ DOMAIN activeInvites = DOMAIN pre.activeInvites \ {i}
                   /\ \A j \in DOMAIN activeInvites : activeInvites[j] = pre.activeInvites[j]
           /\ clients = pre.clients
           /\ activeGames = pre.activeGames
           /\ creating = pre.creating
           /\ dbGames = pre.dbGames

\* a declined invite never has a session
C15_NoSession ==
    \A i \in DOMAIN ledger :
        Happened(i, "decline") =>
            /\ ~Happened(i, "session")
            /\ ~Happened(i, "accept")
            /\ \A t \in BagToSet(creating) : t.invite.id # i

\* C15: a game_invite_decline for an absent id or from a user who is not the
\* invitee sends nothing and changes no table; a decline by the invitee of a
\* pending invite removes exactly that invite, sends game_invite_declined with
\* the invite id to the inviter only, and creates no session.
C15_Decline == C15_NoSession /\ C15_Step

\* the invitee has just declined one of two pending invites sent by another
\* user: the other invite is still stored
C15_Witness ==
    /\ FrameOf(last, "game_invite_decline")
    /\ last.frame.invite_id \in DOMAIN ledger
    /\ Events(last.frame.invite_id) = <<"decline", "game_invite_declined">>
    /\ ledger[last.frame.invite_id].toUserId = last.user
    /\ ledger[last.frame.invite_id].fromUserId # last.user
    /\ last.frame.invite_id \notin DOMAIN activeInvites
    /\ activeInvites # EmptyMap
    /\ \E s \in Sockets : Len(wire[s]) = 1

\* ----------------------------------------------------------------- C16
\* the game_ended envelope for a suspended game_end
EndedMessage(t) ==
    [type |-> "game_ended", game_id |-> t.gameId, winner_id |-> t.winnerId,
     left_score |-> t.leftScore, right_score |-> t.rightScore]

\* session ids that were handed out and are no longer in the table
EndedGames == {g \in 1 .. nextId - 1 : g \notin DOMAIN ledger /\ g \notin DOMAIN activeGames}

\* EndedGames in the state the last step started from
EndedGamesBefore == {g \in 1 .. pre.nextId - 1 : g \notin DOMAIN pre.ledger /\ g \notin DOMAIN pre.activeGames}

\* a game_end frame for a live session suspends with the frame's values
C16_Frame ==
    (/\ FrameOf(last, "game_end")
     /\ last.frame.game_id \in DOMAIN pre.activeGames)
    => /\ pre.activeGames[last.frame.game_id].dbGameId \in 1 .. Len(pre.dbGames)
       /\ updating = pre.updating (+) SetToBag({[game |-> pre.activeGames[last.frame.game_id],
                                              gameId |-> last.frame.game_id,
                                              winnerId |-> last.frame.winner_id,
                                              leftScore |-> last.frame.left_score,
                                              rightScore |-> last.frame.right_score]})

\* when the update resolves: the row, the two envelopes, the removal
C16_Resolved ==
    last.kind = "updated" =>
        LET t == last.task
            row == t.game.dbGameId
        IN /\ BagIn(t, pre.updating)
           /\ Len(dbGames) = Len(pre.dbGames)
           /\ dbGames[row].player1Score = t.leftScore
           /\ dbGames[row].player2Score = t.rightScore
           /\ dbGames[row].winnerId = t.winnerId
           /\ \A k \in 1 .. Len(pre.dbGames) : k # row => dbGames[k] = pre.dbGames[k]
           /\ calls = <<Call(t.game.hostId, EndedMessage(t)),
                         Call(t.game.guestId, EndedMessage(t))>>
           /\ t.gameId \notin DOMAIN activeGames
           /\ \A g \in DOMAIN pre.activeGames \ {t.gameId} :
                 g \in DOMAIN activeGames /\ activeGames[g] = pre.activeGames[g]

\* a session leaves the table only with its game_ended broadcast, and a
\* session that left never returns
C16_Gone ==
    /\ \A g \in DOMAIN pre.activeGames \ DOMAIN activeGames :
          /\ last.kind = "updated"
          /\ last.task.gameId = g
    /\ \A g \in EndedGamesBefore : g \notin DOMAIN activeGames

\* a relay frame for an ended session delivers nothing
C16_NoRelay ==
    (/\ FrameOf(last, "game_state") \/ FrameOf(last, "game_paddle_update")
     /\ last.frame.game_id \in EndedGamesBefore)
    => /\ wire = Quiet
       /\ calls = <<>>

\* C16: a game_end for a live session whose persistence call succeeds writes
\* the frame's left score, right score and winner to the session's match
\* record, sends game_ended with those values to host and guest, and removes
\* the session; from the first game_ended broadcast for a session onward no
\* game_state or game_paddle_update for that id is delivered to anyone.
C16_EndingASession == C16_Frame /\ C16_Resolved /\ C16_Gone /\ C16_NoRelay

\* the host of a session that has ended, whose guest is still connected, has
\* just sent game_state for it
C16_Witness ==
    /\ FrameOf(last, "game_state")
    /\ last.frame.game_id \in EndedGames
    /\ wire = Quiet
    /\ \E k \in 1 .. Len(dbGames) :
          /\ dbGames[k].player1Id = last.user
          /\ dbGames[k].player2Id # last.user
          /\ dbGames[k].player2Id \in DOMAIN clients
          /\ dbGames[k].player1Score = 11
          /\ dbGames[k].player2Score = 7
          /\ dbGames[k].winnerId # NoUser

\* ----------------------------------------------------------------- C17
\* C17: a match is finalized once: under any interleaving of game_end frames
\* with handlers suspended at the persistence call, the match record is
\* updated at most once and game_ended is broadcast at most once per session:
\* a handler that resumes after the session was finalized writes nothing and
\* sends nothing.
C17_Step ==
    (/\ last'.kind = "updated"
     /\ last'.task.gameId \in EndedGames)
    => /\ dbGames' = dbGames
       /\ calls' = <<>>
       /\ wire' = Quiet

C17_FinalizedOnce == [][C17_Step]_vars

\* ----------------------------------------------------------------- C18
\* C18: disconnect does not end a match: closing any socket changes only the
\* connection table; the session table, the invite table and the match
\* records are unchanged, and a session stays live until a game_end frame for
\* its id is handled.
C18_Close ==
    last.kind = "close" =>
        /\ activeGames = pre.activeGames
        /\ activeInvites = pre.activeInvites
        /\ dbGames = pre.dbGames
        /\ timers = pre.timers
        /\ creating = pre.creating
        /\ updating = pre.updating
        /\ calls = <<>>
        /\ \A u \in DOMAIN clients : u \in DOMAIN pre.clients /\ clients[u] \subseteq pre.clients[u]

\* a session leaves the table only when a handler of a game_end frame for
\* its id resumes
C18_Leaves ==
    \A g \in DOMAIN pre.activeGames \ DOMAIN activeGames :
        /\ last.kind = "updated"
        /\ BagIn(last.task, pre.updating)
        /\ last.task.gameId = g

\* a handler suspended in handleGameEnd was started by a game_end frame for
\* the session it holds
C18_FromFrame ==
    \A t \in BagToSet(updating) :
        CopiesIn(t, updating) > CopiesIn(t, pre.updating) =>
            /\ FrameOf(last, "game_end")
            /\ last.frame.game_id = t.gameId

Orphaned(g) ==
    /\ g \in DOMAIN activeGames
    /\ \/ activeGames[g].hostId \notin DOMAIN clients
       \/ activeGames[g].guestId \notin DOMAIN clients

\* the match of row k is over with a winner recorded
Forfeited(g, k) ==
    /\ g \notin DOMAIN activeGames
    /\ k \in 1 .. Len(dbGames)
    /\ dbGames[k].winnerId \in {dbGames[k].player1Id, dbGames[k].player2Id}

\* C19: forfeit on disconnect: when a participant of a live session
\* disconnects, the session is eventually ended with the remaining participant
\* as winner and the result recorded in the match record, without any game_end
\* frame being sent.
C19_ForfeitOnDisconnect ==
    \A g \in AllIds : \A k \in 1 .. FewInvites :
        (Orphaned(g) /\ activeGames[g].dbGameId = k) ~> Forfeited(g, k)

\* ----------------------------------------------------------------- C20
\* C20: handshake: a connection with no token is closed with code 4001 and one
\* whose token fails verification with code 4002; in both cases the socket is
\* never added to the connection table and gets no message handler; only a
\* connection with a verified token is registered, under the user id the
\* token carries, which stays fixed for the life of the connection.
C20_Step ==
    last.kind = "connect" =>
        LET token == last.token
            s == last.sock
        IN /\ (last.code = 4001) <=> ~token.present
           /\ (last.code = 4002) <=> (token.present /\ ~token.valid)
           /\ (last.code = 0) <=> (token.present /\ token.valid)
           /\ last.code # 0 => /\ clients = pre.clients
                                /\ conn = pre.conn
           /\ last.code = 0 => /\ s \notin DOMAIN pre.conn
                                /\ conn = MapSet(pre.conn, s, [userId |-> token.id])
                                /\ token.id \in DOMAIN clients
                                /\ s \in clients[token.id]
                                /\ \A u \in DOMAIN clients \ {token.id} :
                                      u \in DOMAIN pre.clients /\ clients[u] = pre.clients[u]

\* the user id of an open connection never changes, and frames are handled
\* under it
C20_Fixed ==
    /\ \A s \in DOMAIN pre.conn \cap DOMAIN conn : conn[s] = pre.conn[s]
    /\ last.kind = "frame" => \E s \in DOMAIN pre.conn : pre.conn[s].userId = last.user

\* only sockets that passed the handshake are in the connection table
C20_Registered ==
    \A u \in DOMAIN clients : \A s \in clients[u] : s \in DOMAIN conn /\ conn[s].userId = u

C20_Handshake == C20_Registered /\ C20_Step /\ C20_Fixed

\* while a user is connected, a connection whose token does not verify has
\* just been closed with 4002 and left the table as it was
C20_Witness ==
    /\ last.kind = "connect"
    /\ last.code = 4002
    /\ clients # EmptyMap
    /\ \A u \in DOMAIN clients : last.sock \notin clients[u]

\* ----------------------------------------------------------------- C21
\* what no frame handler of the relay and keep-alive kind touches
Untouched ==
    /\ tables = tablesBefore
    /\ conn = pre.conn
    /\ timers = pre.timers
    /\ creating = pre.creating
    /\ updating = pre.updating
    /\ dbGames = pre.dbGames
    /\ nextId = pre.nextId

\* C21: ping is state-free: a ping frame produces exactly one pong envelope,
\* written to the socket the ping arrived on, not to the user's other sockets
\* and not to other users, and leaves the connection, invite and session
\* tables unchanged.
C21_Step ==
    FrameOf(last, "ping") =>
        /\ last.sock \in DOMAIN pre.conn
        /\ pre.conn[last.sock].userId = last.user
        /\ wire = [s \in Sockets |-> IF s = last.sock THEN <<[type |-> "pong"]>> ELSE <<>>]
        /\ calls = <<>>
        /\ Untouched

C21_PingStateFree == C21_Step

\* a user with two sockets has just sent a ping on one of them while another
\* user is connected
C21_Witness ==
    /\ FrameOf(last, "ping")
    /\ Cardinality(clients[last.user]) = 2
    /\ \E u \in DOMAIN clients : u # last.user
    /\ wire[last.sock] = <<[type |-> "pong"]>>

\* ----------------------------------------------------------------- C22
\* C22: malformed and unknown input is harmless: an unparseable frame, or a
\* well-formed frame of a type the switch does not know, sends no envelope,
\* changes no table, and leaves the connection open and registered, so later
\* frames on it are still handled.
C22_Step ==
    (last.kind = "garbage" \/ FrameOf(last, "hello"))
    => /\ wire = Quiet
       /\ calls = <<>>
       /\ Untouched
       /\ \E s \in DOMAIN conn : /\ conn[s].userId = last.user
                                  /\ s \in clients[last.user]

C22_HarmlessInput == C22_Step

\* an unparseable frame has just been dropped while an invite is pending
C22_Witness ==
    /\ last.kind = "garbage"
    /\ last.user \in DOMAIN clients
    /\ activeInvites # EmptyMap
    /\ wire = Quiet

\* ----------------------------------------------------------------- C23
\* what socket s is written by the calls cs: the envelopes addressed to a
\* user whose set holds s, in the order of the calls
Delivered(cs, s) ==
    LET mine == SelectSeq(cs, LAMBDA c : c.to \in DOMAIN clients /\ s \in clients[c.to])
    IN [k \in 1 .. Len(mine) |-> mine[k].msg]

\* Delivered in the state the last step started from
DeliveredBefore(cs, s) ==
    LET mine == SelectSeq(cs, LAMBDA c : c.to \in DOMAIN pre.clients /\ s \in pre.clients[c.to])
    IN [k \in 1 .. Len(mine) |-> mine[k].msg]

\* the steps whose writes are all made through sendToUser
ThroughSendToUser(l) == l.kind \notin {"chat", "connect", "close"} /\ ~FrameOf(l, "ping")

\* each call writes once to each socket of the addressed user's set and to
\* no other socket, and nothing when the user has no entry
C23_Step ==
    ThroughSendToUser(last) => \A s \in Sockets : wire[s] = DeliveredBefore(calls, s)

\* a step that does nothing but send leaves every table as it was
C23_ReadOnly ==
    (\/ FrameOf(last, "game_paddle_update")
     \/ FrameOf(last, "game_state")
     \/ (FrameOf(last, "game_invite") /\ last.frame.to_user_id \notin DOMAIN pre.clients))
    => tables = tablesBefore

\* a socket that is not open is written nothing
C23_ClosedSilent == \A s \in Sockets \ DOMAIN conn : wire[s] = <<>>

\* C23: sending an envelope to a user writes it exactly once to each socket
\* currently in that user's set and to no other socket; if the user has no
\* entry it writes nothing; it never modifies any table; a socket closed
\* before the send never receives the envelope.
C23_DeliverySet == C23_ClosedSilent /\ C23_Step /\ C23_ReadOnly

\* one envelope has just been sent to a user with one open socket after
\* another socket had closed, while the sender's socket is open too
C23_Witness ==
    /\ Len(calls) = 1
    /\ calls[1].to \in DOMAIN clients
    /\ Cardinality(clients[calls[1].to]) = 1
    /\ \A s \in clients[calls[1].to] : wire[s] = <<calls[1].msg>>
    /\ nextSock = MaxSockets + 1
    /\ Cardinality(DOMAIN conn) = 2
    /\ \A s \in Sockets \ clients[calls[1].to] : wire[s] = <<>>

\* ----------------------------------------------------------------- C24
\* the envelope the bridge pushes for an event
NewMessage(data) ==
    [type |-> "new_message", from |-> data.from, content |-> data.content,
     messageId |-> data.messageId]

\* C24: each chat:message event results in one new_message envelope on every
\* live socket of the event's target user and on no other socket; if the
\* target has no live connection the event is dropped with no envelope and no
\* state retained; the event never changes the connection, invite or session
\* tables.
C24_Step ==
    last.kind = "chat" =>
        /\ wire = OnlyToBefore(last.data.to, NewMessage(last.data))
        /\ last.data.to \notin DOMAIN pre.clients => wire = Quiet
        /\ calls = <<>>
        /\ Untouched
        /\ ledger = pre.ledger

C24_ChatBridge == C24_Step

\* an event for a user with two sockets has just been pushed while another
\* user is connected
C24_Witness ==
    /\ last.kind = "chat"
    /\ last.data.to \in DOMAIN clients
    /\ Cardinality(clients[last.data.to]) = 2
    /\ \A s \in clients[last.data.to] : wire[s] = <<NewMessage(last.data)>>
    /\ \E u \in DOMAIN clients : u # last.data.to

\* ----------------------------------------------------------------- C25
\* what the sockets of user u were written in the step
Heard(w, u) == [s \in clients[u] |-> w[s]]

\* Heard in the state the last step started from
HeardBefore(w, u) == [s \in pre.clients[u] |-> w[s]]

\* the sender of the frame is a participant of session g
Plays(u, g) == u \in {activeGames[g].hostId, activeGames[g].guestId}

\* Plays in the state the last step started from
PlaysBefore(u, g) == u \in {pre.activeGames[g].hostId, pre.activeGames[g].guestId}

\* an accept of an invite that is not the sender's is answered the same way
\* whether the invite is stored or not
C25_Accept ==
    (/\ FrameOf(last, "game_invite_accept")
     /\ \/ last.frame.invite_id \notin DOMAIN pre.activeInvites
        \/ pre.activeInvites[last.frame.invite_id].toUserId # last.user)
    => HeardBefore(wire, last.user) =
          [s \in pre.clients[last.user] |-> <<NotFoundCall(last.user).msg>>]

\* a decline of an invite that is not the sender's is not answered, and one
\* of an unknown id writes nothing at all
C25_Decline ==
    FrameOf(last, "game_invite_decline") =>
        /\ last.frame.invite_id \notin DOMAIN pre.activeInvites => wire = Quiet
        /\ (\/ last.frame.invite_id \notin DOMAIN pre.activeInvites
            \/ pre.activeInvites[last.frame.invite_id].toUserId # last.user)
           => HeardBefore(wire, last.user) = [s \in pre.clients[last.user] |-> <<>>]

\* a session frame of a user who is not in the session is not answered, and
\* one of an unknown id writes nothing at all
C25_Session ==
    (\/ FrameOf(last, "game_state")
     \/ FrameOf(last, "game_paddle_update")
     \/ FrameOf(last, "game_end"))
    => /\ last.frame.game_id \notin DOMAIN pre.activeGames => wire = Quiet /\ calls = <<>>
       /\ (\/ last.frame.game_id \notin DOMAIN pre.activeGames
           \/ ~PlaysBefore(last.user, last.frame.game_id))
          => HeardBefore(wire, last.user) = [s \in pre.clients[last.user] |-> <<>>]

\* the game_ended envelopes reach the participants only
C25_Ended ==
    last.kind = "updated" =>
        \A u \in DOMAIN pre.clients :
            u \notin {last.task.game.hostId, last.task.game.guestId}
            => HeardBefore(wire, u) = [s \in pre.clients[u] |-> <<>>]

\* C25: no information leak on lookup misses: the response to a
\* game_invite_accept is the same whether the invite id does not exist or
\* exists but is addressed to a different user, and a game_invite_decline,
\* game_state, game_paddle_update or game_end carrying an unknown id produces
\* no envelope at all; a user cannot tell from the responses whether an id
\* they do not own is live.
C25_NoLeak == C25_Accept /\ C25_Decline /\ C25_Session /\ C25_Ended

\* a user who is neither the inviter nor the invitee has just tried to accept
\* a stored invite and got the answer an unknown id gets
C25_Witness ==
    /\ FrameOf(last, "game_invite_accept")
    /\ last.frame.invite_id \in DOMAIN activeInvites
    /\ last.user \notin {activeInvites[last.frame.invite_id].fromUserId,
                         activeInvites[last.frame.invite_id].toUserId}
    /\ \A s \in clients[last.user] : wire[s] = <<NotFoundCall(last.user).msg>>

\* ----------------------------------------------------------------- C26
\* C26: per-connection run-to-completion: the handler of a frame runs to
\* completion, its persistence call included, before the handler of the next
\* frame from that connection starts.  In a run with a single connection
\* every handler was started by a frame of that connection, so no frame is
\* handled while a handler is suspended.
C26_Step ==
    (last'.kind = "frame" /\ nextSock = 2)
    => creating = EmptyBag /\ updating = EmptyBag

C26_RunToCompletion == [][C26_Step]_vars

\* ----------------------------------------------------------------- C27
\* C27 as stated: when the persistence call made while opening a session
\* fails, a session for the accepted invite is in the live table without a
\* match record id.
C27_SessionWithoutRecord ==
    last.kind = "create_failed" =>
        \E g \in DOMAIN activeGames :
            /\ activeGames[g].hostId = last.task.invite.fromUserId
            /\ activeGames[g].guestId = last.task.acceptingUserId
            /\ activeGames[g].dbGameId \notin 1 .. Len(dbGames)

\* every session in the table has the id of a stored match record of its two
\* players
C27_Recorded ==
    \A g \in DOMAIN activeGames :
        /\ activeGames[g].dbGameId \in 1 .. Len(dbGames)
        /\ dbGames[activeGames[g].dbGameId].player1Id = activeGames[g].hostId
        /\ dbGames[activeGames[g].dbGameId].player2Id = activeGames[g].guestId

\* a failed create inserts no session and no row
C27_Failed ==
    last.kind = "create_failed" =>
        /\ activeGames = pre.activeGames
        /\ dbGames = pre.dbGames
        /\ nextId = pre.nextId

\* C27, amended: the session is inserted only after the persistence call has
\* succeeded, so when that call fails no session is inserted, and every
\* session in the live table has a persisted match record id.
C27_NoSessionWithoutRecord == C27_Recorded /\ C27_Failed

\* the create of an accepted invite between two users has just failed: the
\* session table is empty
C27_Witness ==
    /\ last.kind = "create_failed"
    /\ last.task.invite.fromUserId # last.task.acceptingUserId
    /\ activeGames = EmptyMap
    /\ Events(last.task.invite.id) = <<"accept">>

\* ----------------------------------------------------------------- C28
\* invite i was accepted and its create has failed: nothing more was logged
\* for it and no handler holds it
Lost(i) ==
    /\ i \in DOMAIN ledger
    /\ Events(i) = <<"accept">>
    /\ \A t \in BagToSet(creating) : t.invite.id # i

\* Lost in the state the last step started from
LostBefore(i) ==
    /\ i \in DOMAIN pre.ledger
    /\ EventsBefore(i) = <<"accept">>
    /\ \A t \in BagToSet(pre.creating) : t.invite.id # i

\* the failure itself: the invite stays removed, no session, no envelope
C28_Failed ==
    last.kind = "create_failed" =>
        LET i == last.task.invite.id
        IN /\ BagIn(last.task, pre.creating)
           /\ i \notin DOMAIN pre.activeInvites
           /\ activeInvites = pre.activeInvites
           /\ activeGames = pre.activeGames
           /\ dbGames = pre.dbGames
           /\ wire = Quiet
           /\ calls = <<>>
           /\ ledger = pre.ledger

\* afterwards: the inviter is never told anything about the invite, which
\* never comes back, and its timer fires as a no-op
C28_Silent ==
    \A i \in DOMAIN pre.ledger :
        LostBefore(i) =>
            /\ ledger[i] = pre.ledger[i]
            /\ i \notin DOMAIN activeInvites
            /\ (last.kind = "timer" /\ last.invite_id = i)
               => wire = Quiet /\ calls = <<>> /\ tables = tablesBefore

\* C28: when the match-record creation fails during an otherwise valid
\* accept, the invite has already been removed and is not restored, no session
\* is inserted, neither party is sent game_invite_accepted or any error
\* envelope, and the invite's timer later fires as a no-op: the inviter never
\* learns how the invite resolved.
C28_AcceptWithFailingCreate == C28_Failed /\ C28_Silent

\* the timer of an invite whose create had failed has just fired, while
\* inviter and invitee are both connected
C28_Witness ==
    /\ last.kind = "timer"
    /\ Lost(last.invite_id)
    /\ ledger[last.invite_id].fromUserId # ledger[last.invite_id].toUserId
    /\ {ledger[last.invite_id].fromUserId, ledger[last.invite_id].toUserId}
          \subseteq DOMAIN clients
    /\ activeGames = EmptyMap
    /\ dbGames = <<>>
    /\ wire = Quiet

\* ----------------------------------------------------------------- C29
\* C29: when the match-record update fails, the session remains in the live
\* table with host and guest unchanged, no game_ended envelope is sent to
\* anyone, relays for the session keep working, and a later game_end for the
\* same id can still finalize it: the failure leaves every table, the rows and
\* the other suspended handlers as they were.
C29_Step ==
    last.kind = "update_failed" =>
        /\ BagIn(last.task, pre.updating)
        /\ updating = pre.updating (-) SetToBag({last.task})
        /\ activeGames = pre.activeGames
        /\ last.task.gameId \in DOMAIN pre.activeGames
              => activeGames[last.task.gameId] = last.task.game
        /\ dbGames = pre.dbGames
        /\ clients = pre.clients
        /\ activeInvites = pre.activeInvites
        /\ creating = pre.creating
        /\ wire = Quiet
        /\ calls = <<>>

C29_GameEndWithFailingUpdate == C29_Step

\* the update of a game_end has just failed: the session is still in the
\* table, both players are connected and no other handler is suspended
C29_Witness ==
    /\ last.kind = "update_failed"
    /\ last.task.gameId \in DOMAIN activeGames
    /\ activeGames[last.task.gameId].hostId # activeGames[last.task.gameId].guestId
    /\ {activeGames[last.task.gameId].hostId, activeGames[last.task.gameId].guestId}
          \subseteq DOMAIN clients
    /\ updating = EmptyBag
    /\ dbGames[activeGames[last.task.gameId].dbGameId].winnerId = NoUser

\* ----------------------------------------------------------------- C30
\* the handler a game_end frame suspends
EndTask(l) ==
    [game |-> activeGames[l.frame.game_id], gameId |-> l.frame.game_id,
     winnerId |-> l.frame.winner_id, leftScore |-> l.frame.left_score,
     rightScore |-> l.frame.right_score]

\* EndTask in the state the last step started from
EndTaskBefore(l) ==
    [game |-> pre.activeGames[l.frame.game_id], gameId |-> l.frame.game_id,
     winnerId |-> l.frame.winner_id, leftScore |-> l.frame.left_score,
     rightScore |-> l.frame.right_score]

\* a game_end of a user who is not in the session is taken up like a
\* participant's
C30_Frame ==
    (/\ FrameOf(last, "game_end")
     /\ last.frame.game_id \in DOMAIN pre.activeGames
     /\ ~PlaysBefore(last.user, last.frame.game_id))
    => /\ updating = pre.updating (+) SetToBag({EndTaskBefore(last)})
       /\ activeGames = pre.activeGames

\* and every handler that resumes records the winner the frame carried,
\* whoever that is, tells host and guest, and removes the session
C30_Resolved ==
    last.kind = "updated" =>
        LET t == last.task
        IN /\ dbGames[t.game.dbGameId] =
                 [pre.dbGames[t.game.dbGameId] EXCEPT !.player1Score = t.leftScore,
                                                  !.player2Score = t.rightScore,
                                                  !.winnerId = t.winnerId]
           /\ Notices(calls, t.game.hostId) # <<>>
           /\ Notices(calls, t.game.guestId) # <<>>
           /\ \A k \in 1 .. Len(calls) : calls[k].msg = EndedMessage(t)
           /\ t.gameId \notin DOMAIN activeGames

\* C30: game_end is not restricted to participants: a game_end frame for a
\* live session sent by a connected user who is neither its host nor its
\* guest takes full effect (record updated with the frame's scores and winner,
\* game_ended sent to host and guest, session removed), and the recorded
\* winner is whatever the frame carried, even if it is neither participant.
C30_GameEndByAnyone == C30_Frame /\ C30_Resolved

\* a user who is in no session has just sent game_end for the session of two
\* other connected users, naming itself as winner: the handler is suspended
\* at the update
C30_Witness ==
    /\ FrameOf(last, "game_end")
    /\ last.frame.game_id \in DOMAIN activeGames
    /\ ~Plays(last.user, last.frame.game_id)
    /\ last.frame.winner_id = last.user
    /\ activeGames[last.frame.game_id].hostId # activeGames[last.frame.game_id].guestId
    /\ {activeGames[last.frame.game_id].hostId, activeGames[last.frame.game_id].guestId}
          \subseteq DOMAIN clients
    /\ updating = SetToBag({EndTask(last)})

\* ----------------------------------------------------------------- C31
\* the envelope a game_paddle_update frame is relayed as
PaddleMessage(l) ==
    [type |-> "game_paddle_update", game_id |-> l.frame.game_id,
     paddle_y |-> l.frame.paddle_y]

\* C31: paddle updates only flow between the two participants: a
\* game_paddle_update for a live session of two users is relayed only when its
\* sender is the session's host or guest, and then only to the other one; a
\* frame from any other connected user causes no delivery.
C31_PaddleBetweenPlayers ==
    (/\ FrameOf(last, "game_paddle_update")
     /\ last.frame.game_id \in DOMAIN activeGames
     /\ activeGames[last.frame.game_id].hostId # activeGames[last.frame.game_id].guestId)
    => LET game == activeGames[last.frame.game_id]
       IN /\ last.user = game.hostId => wire = OnlyTo(game.guestId, PaddleMessage(last))
          /\ last.user = game.guestId => wire = OnlyTo(game.hostId, PaddleMessage(last))
          /\ ~Plays(last.user, last.frame.game_id) => wire = Quiet

\* ----------------------------------------------------------------- C32
\* C32: relays are read-only: handling a game_paddle_update or game_state
\* frame, whether it is relayed or dropped, never adds, removes or alters any
\* entry of the connection, invite or session tables and never calls the
\* persistence gateway.
C32_Step ==
    (FrameOf(last, "game_paddle_update") \/ FrameOf(last, "game_state"))
    => /\ clients = pre.clients
       /\ conn = pre.conn
       /\ activeInvites = pre.activeInvites
       /\ timers = pre.timers
       /\ activeGames = pre.activeGames
       /\ nextId = pre.nextId
       /\ creating = pre.creating
       /\ updating = pre.updating
       /\ dbGames = pre.dbGames

C32_RelaysReadOnly == C32_Step

\* a paddle update has just been relayed to the other player while a
\* game_end for the same session is suspended at its update
C32_Witness ==
    /\ FrameOf(last, "game_paddle_update")
    /\ last.frame.game_id \in DOMAIN activeGames
    /\ Plays(last.user, last.frame.game_id)
    /\ wire # Quiet
    /\ \E t \in BagToSet(updating) : t.gameId = last.frame.game_id
    /\ dbGames[activeGames[last.frame.game_id].dbGameId].winnerId = NoUser

\* ----------------------------------------------------------------- C33
\* the live sessions user u is host or guest of
SessionsOf(u) == {g \in DOMAIN activeGames : Plays(u, g)}

\* a relay frame for a live session addresses only that session's players,
\* with that session's id
C33_Relay ==
    (/\ FrameOf(last, "game_paddle_update") \/ FrameOf(last, "game_state")
     /\ last.frame.game_id \in DOMAIN pre.activeGames)
    => \A k \in 1 .. Len(calls) :
          /\ calls[k].msg.game_id = last.frame.game_id
          /\ PlaysBefore(calls[k].to, last.frame.game_id)

\* a game_end that resumes removes the session of its id and no other, writes
\* that session's row and no other, and announces that id alone
C33_End ==
    last.kind = "updated" =>
        LET t == last.task
        IN /\ activeGames = MapDelete(pre.activeGames, t.gameId)
           /\ Len(dbGames) = Len(pre.dbGames)
           /\ \A r \in 1 .. Len(pre.dbGames) : r # t.game.dbGameId => dbGames[r] = pre.dbGames[r]
           /\ \A k \in 1 .. Len(calls) : calls[k].msg.game_id = t.gameId

\* C33: per-user session uniqueness is not enforced: a state in which one
\* user is a participant of two or more live sessions at the same time is
\* reachable through ordinary invite/accept sequences, and relays and game_end
\* on each of those sessions operate independently by session id.
C33_SessionsIndependent == C33_Relay /\ C33_End

\* two users are the players of two live sessions at once, and a game_end
\* for one of the two has just resumed, leaving the other live
C33_Witness ==
    /\ last.kind = "updated"
    /\ last.task.game.hostId # last.task.game.guestId
    /\ last.task.gameId \notin DOMAIN activeGames
    /\ \E g \in SessionsOf(last.task.game.hostId) :
          /\ Plays(last.task.game.guestId, g)
          /\ activeGames[g].hostId # activeGames[g].guestId
          /\ dbGames[activeGames[g].dbGameId].winnerId = NoUser

\* ----------------------------------------------------------------- C34
\* the step is an accept, a decline or the timer of invite i
Resolves(l, i) ==
    \/ /\ FrameOf(l, "game_invite_accept") \/ FrameOf(l, "game_invite_decline")
       /\ l.frame.invite_id = i
    \/ /\ l.kind = "timer"
       /\ l.invite_id = i

\* an invite to a connected user is stored under an id no pending invite
\* has, beside the pending ones, whatever pair they are between
C34_Second ==
    (/\ FrameOf(last, "game_invite")
     /\ last.frame.to_user_id \in DOMAIN pre.clients)
    => \E n \in DOMAIN activeInvites \ DOMAIN pre.activeInvites :
          /\ n \notin DOMAIN pre.ledger
          /\ activeInvites = MapSet(pre.activeInvites, n,
                                     [id |-> n, fromUserId |-> last.user,
                                      toUserId |-> last.frame.to_user_id])
          /\ timers = pre.timers \cup {[inviteId |-> n, fromUserId |-> last.user]}

\* an invite leaves the table in a step that names it, and every other
\* pending invite stays as it was, with its timer
C34_Resolve ==
    \A i \in DOMAIN pre.activeInvites \ DOMAIN activeInvites :
        /\ Resolves(last, i)
        /\ \A j \in DOMAIN pre.activeInvites \ {i} :
              /\ j \in DOMAIN activeInvites
              /\ activeInvites[j] = pre.activeInvites[j]
              /\ TimerOfBefore(j) \in timers

\* C34: concurrent invites between the same pair are independent: a second
\* game_invite from the same inviter to the same invitee while the first is
\* pending stores a second invite under a different id; resolving one (accept,
\* decline or expiry) leaves the other pending with its own timer, and both
\* can be accepted, yielding two sessions.
C34_ConcurrentInvites == C34_Second /\ C34_Resolve

\* the two invites of one inviter to one invitee have both been accepted:
\* the second create has just resolved and both sessions are live
C34_Witness ==
    /\ last.kind = "created"
    /\ DOMAIN ledger = {1, 2}
    /\ ledger[1].fromUserId = ledger[2].fromUserId
    /\ ledger[1].toUserId = ledger[2].toUserId
    /\ ledger[1].fromUserId # ledger[1].toUserId
    /\ Cardinality(DOMAIN activeGames) = 2
    /\ \A g \in DOMAIN activeGames :
          /\ activeGames[g].hostId = ledger[1].fromUserId
          /\ activeGames[g].guestId = ledger[1].toUserId

\* ----------------------------------------------------------------- C35
\* a close, the last socket of the inviter or the invitee included, leaves
\* every pending invite and its timer
C35_Close ==
    last.kind = "close" =>
        /\ activeInvites = pre.activeInvites
        /\ timers = pre.timers

\* an accept of a pending invite by its invitee goes ahead whatever socket it
\* comes from and whoever is connected
C35_Accept ==
    (/\ FrameOf(last, "game_invite_accept")
     /\ last.frame.invite_id \in DOMAIN pre.activeInvites
     /\ pre.activeInvites[last.frame.invite_id].toUserId = last.user)
    => /\ last.frame.invite_id \notin DOMAIN activeInvites
       /\ creating = pre.creating (+) SetToBag({[invite |-> pre.activeInvites[last.frame.invite_id],
                                              acceptingUserId |-> last.user]})
       /\ wire = Quiet

\* when the create resolves the session is inserted, and with the inviter
\* offline the only writes are the invitee's game_invite_accepted
C35_Created ==
    last.kind = "created" =>
        LET t == last.task
        IN /\ last.game_id \in DOMAIN activeGames
           /\ activeGames[last.game_id].hostId = t.invite.fromUserId
           /\ activeGames[last.game_id].guestId = t.acceptingUserId
           /\ t.invite.fromUserId \notin DOMAIN pre.clients
              => wire = OnlyToBefore(t.acceptingUserId,
                                [type |-> "game_invite_accepted", game_id |-> last.game_id,
                                 db_game_id |-> activeGames[last.game_id].dbGameId,
                                 opponent_id |-> t.invite.fromUserId, is_host |-> FALSE])

\* C35: presence is checked only at invite creation: an invite stays pending
\* when the invitee or the inviter loses all connections afterwards; a later
\* accept by the invitee, from any socket authenticated as that user id
\* (a new connection included), still succeeds and creates a session even if
\* the inviter is offline at that moment, in which case the inviter's
\* game_invite_accepted is silently not delivered.
C35_PresenceAtInviteOnly == C35_Close /\ C35_Accept /\ C35_Created

\* a session has just been created for an inviter who is no longer connected:
\* the invitee, on the last socket opened, is the only one told
C35_Witness ==
    /\ last.kind = "created"
    /\ last.task.invite.fromUserId # last.task.acceptingUserId
    /\ last.task.invite.fromUserId \notin DOMAIN clients
    /\ last.task.acceptingUserId \in DOMAIN clients
    /\ clients[last.task.acceptingUserId] = {MaxSockets}
    /\ last.game_id \in DOMAIN activeGames
    /\ wire[MaxSockets] # <<>>
    /\ Events(last.task.invite.id) = <<"accept", "session", "game_invite_accepted">>

\* ----------------------------------------------------------------- C36
\* C36: expiry notifies the inviter only: when the timer removes a pending
\* invite, game_invite_expired is sent to the inviter's live sockets and
\* nothing is sent to the invitee; if the inviter is offline at that moment
\* the invite is still removed and no envelope is sent.
C36_Step ==
    (/\ last.kind = "timer"
     /\ last.invite_id \in DOMAIN pre.activeInvites)
    => LET invite == pre.activeInvites[last.invite_id]
           expired == [type |-> "game_invite_expired", invite_id |-> last.invite_id]
       IN /\ last.invite_id \notin DOMAIN activeInvites
          /\ wire = OnlyToBefore(invite.fromUserId, expired)
          /\ invite.fromUserId \notin DOMAIN pre.clients => wire = Quiet
          /\ (invite.toUserId # invite.fromUserId /\ invite.toUserId \in DOMAIN pre.clients)
             => \A s \in pre.clients[invite.toUserId] : wire[s] = <<>>

C36_ExpiryToInviterOnly == C36_Step

\* the timer has just removed a pending invite while inviter and invitee were
\* both connected: the inviter's socket got game_invite_expired and the
\* invitee's sockets nothing
C36_Witness ==
    /\ last.kind = "timer"
    /\ last.invite_id \in DOMAIN ledger
    /\ last.invite_id \notin DOMAIN activeInvites
    /\ Events(last.invite_id) = <<"expire", "game_invite_expired">>
    /\ LET inviter == ledger[last.invite_id].fromUserId
           invitee == ledger[last.invite_id].toUserId
       IN /\ inviter # invitee
          /\ {inviter, invitee} \subseteq DOMAIN clients
          /\ \A s \in clients[inviter] :
                wire[s] = <<[type |-> "game_invite_expired", invite_id |-> last.invite_id]>>
          /\ \A s \in clients[invitee] : wire[s] = <<>>

====
